---- MODULE Spec2Model ----
(***************************************************************************)
(* Firefly raytracing demo: the host side of the progressive path tracer   *)
(* (RaytracingApp in main.ts, Raytracer in core/Raytracer.ts), the GPU     *)
(* queue it submits to, and the compute kernel of raytracing.wgsl.         *)
(*                                                                         *)
(* Numbers: colour channels are fixed-point integers in units of           *)
(* 1/ColorScale.  Image sizes are scaled down (the demo's 800x600 default  *)
(* becomes DefaultWidth x DefaultHeight); the 8x8 workgroup is kept.       *)
(***************************************************************************)
EXTENDS Integers, Naturals, Sequences, FiniteSets, TLC

\* ---------------------------------------------------------------- bounds
MaxRenders == 2        \* render calls in one behaviour
MaxQueue == 1          \* submitted dispatches not yet executed by the GPU
MaxRectWidth == 2      \* largest container width reported on resize
MaxRectHeight == 1     \* largest container height reported on resize
MaxSpf == 2            \* largest value of the samples-per-frame slider
MaxBounceChoice == 1   \* largest value of the bounce slider besides the default
ColorScale == 2        \* fixed-point resolution of a colour channel
DefaultWidth == 1      \* scaled-down stand-in for the 800 of main.ts
DefaultHeight == 1     \* scaled-down stand-in for the 600 of main.ts
Fix == 4               \* fixed-point resolution of the path tracer's numbers
MaxDepth == 2          \* largest bounce budget passed to rayColor
MaxSpheres == 3        \* longest sphere list closestHit is called on
MaxSeed == 40          \* largest of the first seed inputs rand() is started from
MaxRandCalls == 2      \* calls of rand() in one behaviour
MaxMaterialIndex == 40 \* largest materialIndex of a serialized sphere
MaxChains == 5         \* animation-frame callbacks waiting at one time
MaxFrames == 20        \* animation frames in one behaviour
MaxCalls == 4          \* calls of Raytracer methods besides initialize

\* ------------------------------------------------------ program constants
WorkgroupSize == 8
TMin == 1              \* 0.001, as the smallest positive fixed-point number
TMax == 1000000        \* 1e30
DefaultSamplesPerFrame == 1
DefaultMaxBounces == 8
FloatsPerRecord == 8   \* a sphere or a material in the Float32Array
BytesPerFloat == 4
MinBufferSize == 32
ExponentBias == 127    \* of an IEEE 754 binary32
MantissaBits == 23

SceneTypes == {"default", "spheres", "glass"}
SpfChoices == 1..MaxSpf
BounceChoices == (1..MaxBounceChoice) \cup {DefaultMaxBounces}

\* ------------------------------------------------------------ vector math
Vec3(x, y, z) == <<x, y, z>>
Black == Vec3(0, 0, 0)
White == Vec3(ColorScale, ColorScale, ColorScale)
VAdd(a, b) == <<a[1] + b[1], a[2] + b[2], a[3] + b[3]>>
VDivScalar(a, n) == <<a[1] \div n, a[2] \div n, a[3] \div n>>

\* colours a traced sample can have in the host model: rayColor's result is
\* a deterministic function of data not tracked here (geometry, RNG stream),
\* so the dispatch draws it from this set
SampleColors == {Black, White}

Min(a, b) == IF a < b THEN a ELSE b
Max(a, b) == IF a > b THEN a ELSE b
\* fault: the workgroup count rounded down instead of up
FloorDiv(a, b) == a \div b
Ceil(a, b) == (a + b - 1) \div b

\* clamp(avgColor, vec3f(0.0), vec3f(1.0)), one channel
Clamp01(x) == Max(0, Min(ColorScale, x))

\* pow(x, 1/2.2) of one clamped channel: the largest y with y^11 <= x^5
\* in units of 1/ColorScale (2.2 = 11/5), as the 8-bit unorm store truncates
GammaChannel(x) ==
  CHOOSE y \in 0..ColorScale :
    /\ y^11 <= (x^5) * (ColorScale^6)
    /\ \A z \in 0..ColorScale : z^11 <= (x^5) * (ColorScale^6) => z <= y

GammaCorrect(c) ==
  <<GammaChannel(Clamp01(c[1])), GammaChannel(Clamp01(c[2])), GammaChannel(Clamp01(c[3]))>>

\* ---------------------------------------------------------------- scenes
\* SceneData: the sphere and material tables are identified by the scene
\* type; the camera by the scene whose fov/aperture/focus it carries and by
\* its origin (0 = the scene's own origin, k > 0 = orbit position after k
\* steps of 0.005 rad)
SceneOf(type) == [type |-> type, camera |-> [base |-> type, origin |-> 0]]
SCENE_DEFAULT == SceneOf("default")

\* buildCameraData: the camera record as written to the camera buffer; the
\* aspect ratio is this.width / this.height
buildCameraData(r, camera) == [camera |-> camera, width |-> r.width, height |-> r.height]

\* -------------------------------------------------------------- textures
Pixels(w, h) == (0..(w - 1)) \X (0..(h - 1))

\* a texel of the accumulation texture: its value, and (ghost) the samples
\* summed into it and the divisor the kernel used when it last averaged it.
\* A texel of the output texture is a colour.
ZeroTexel == [rgb |-> Black, samples |-> <<>>, divisor |-> 0]
ZeroOutTexel == Black
ZeroOf(format) == IF format = "rgba32float" THEN ZeroTexel ELSE ZeroOutTexel

\* device.createTexture: zero-initialised storage of the given size
NewTexture(w, h, format) ==
  [width |-> w, height |-> h, format |-> format,
   texels |-> [p \in Pixels(w, h) |-> ZeroOf(format)]]

CreateTexture(g, w, h, format) ==
  [g EXCEPT !.textures = (g.nextTexture :> NewTexture(w, h, format)) @@ @,
            !.nextTexture = @ + 1]

\* texture.destroy(): no later submit may use the texture; work already
\* submitted still runs on it; `?.` skips a null (0) texture
DestroyTexture(g, id) ==
  IF id = 0 THEN g ELSE [g EXCEPT !.destroyed = @ \cup {id}]

\* storage of destroyed textures is released once no submitted work uses it
InUse(g) == {g.queue[i].bindGroup.output : i \in 1..Len(g.queue)}
            \cup {g.queue[i].bindGroup.accumulation : i \in 1..Len(g.queue)}
Release(g) ==
  LET keep == {id \in DOMAIN g.textures : id \notin g.destroyed \/ id \in InUse(g)}
  IN [g EXCEPT !.textures = [id \in keep |-> g.textures[id]]]

\* Texture handles are opaque: after an operation the handles still
\* referenced anywhere are renumbered 1..k in allocation order, so that two
\* states differing only in how many textures were ever created coincide.
TextureRefs(s) ==
  (DOMAIN s.gpu.textures
   \cup {s.rt.outputTexture, s.rt.accumulationTexture,
         s.rt.bindGroup.output, s.rt.bindGroup.accumulation}) \ {0}

Renumber(s) ==
  LET refs == TextureRefs(s)
      Rank(id) == IF id = 0 THEN 0 ELSE Cardinality({j \in refs : j <= id})
      RankBG(bg) == [output |-> Rank(bg.output), accumulation |-> Rank(bg.accumulation)]
      old == [k \in 1..Cardinality(refs) |-> CHOOSE id \in refs : Rank(id) = k]
  IN [rt |-> [s.rt EXCEPT !.outputTexture = Rank(@), !.accumulationTexture = Rank(@),
                          !.bindGroup = RankBG(@)],
      gpu |-> [s.gpu EXCEPT
                 !.textures = [k \in {Rank(id) : id \in DOMAIN s.gpu.textures} |->
                                 s.gpu.textures[old[k]]],
                 !.destroyed = {Rank(id) : id \in s.gpu.destroyed \cap refs},
                 !.nextTexture = Cardinality(refs) + 1,
                 !.queue = [i \in 1..Len(s.gpu.queue) |->
                              [s.gpu.queue[i] EXCEPT !.bindGroup = RankBG(@)]]]]

\* ------------------------------------------------------------- Raytracer
\* s = [rt |-> the Raytracer object, gpu |-> the device]
NullBindGroup == [output |-> 0, accumulation |-> 0]

NewRaytracer(w, h) ==
  [computePipeline |-> FALSE, bindGroup |-> NullBindGroup,
   outputTexture |-> 0, accumulationTexture |-> 0,
   frameIndex |-> 0, sampleCount |-> 0, width |-> w, height |-> h]

NewDevice ==
  [textures |-> <<>>, destroyed |-> {}, nextTexture |-> 1, queue |-> <<>>,
   cameraBuffer |-> [camera |-> SCENE_DEFAULT.camera, width |-> 0, height |-> 0],
   sceneBuffer |-> "none"]

createTextures(s) ==
  LET out == s.gpu.nextTexture
      g1 == CreateTexture(s.gpu, s.rt.width, s.rt.height, "rgba8unorm")
      acc == g1.nextTexture
      g2 == CreateTexture(g1, s.rt.width, s.rt.height, "rgba32float")
  IN [rt |-> [s.rt EXCEPT !.outputTexture = out, !.accumulationTexture = acc],
      gpu |-> g2]

\* throws 'Resources not initialized' (bind group untouched) on a null
\* resource; the bind group layout and the buffers exist exactly when the
\* pipeline does
createBindGroup(s) ==
  IF ~s.rt.computePipeline \/ s.rt.outputTexture = 0 \/ s.rt.accumulationTexture = 0
  THEN s
  ELSE [s EXCEPT !.rt.bindGroup = [output |-> s.rt.outputTexture,
                                   accumulation |-> s.rt.accumulationTexture]]

\* the three writeBuffer calls shared by createBuffers, render and updateScene
writeSceneBuffers(s, scene) ==
  [s EXCEPT !.gpu.cameraBuffer = buildCameraData(s.rt, scene.camera),
            !.gpu.sceneBuffer = scene.type]

initialize(s, scene) ==
  LET s1 == [s EXCEPT !.rt.computePipeline = TRUE]
      s2 == writeSceneBuffers(s1, scene)
      s3 == createTextures(s2)
  IN createBindGroup(s3)

\* fault: a reset of the counters that keeps the accumulation texture
resetCountersOnly(s) ==
  [s EXCEPT !.rt.frameIndex = 0, !.rt.sampleCount = 0]

resetAccumulation(s) ==
  LET s1 == [s EXCEPT !.rt.frameIndex = 0, !.rt.sampleCount = 0]
      s2 == [s1 EXCEPT !.gpu = DestroyTexture(@, s1.rt.accumulationTexture)]
      acc == s2.gpu.nextTexture
      s3 == [s2 EXCEPT !.gpu = CreateTexture(@, s2.rt.width, s2.rt.height, "rgba32float"),
                       !.rt.accumulationTexture = acc]
      s4 == createBindGroup(s3)
  IN [s4 EXCEPT !.gpu = Release(@)]

updateScene(s, scene) == resetAccumulation(writeSceneBuffers(s, scene))

\* fault: a resize that reallocates the accumulation texture only
resizeKeepOutput(s, w, h) ==
  resetAccumulation([s EXCEPT !.rt.width = w, !.rt.height = h])

resize(s, w, h) ==
  LET s1 == [s EXCEPT !.rt.width = w, !.rt.height = h]
      s2 == [s1 EXCEPT !.gpu = DestroyTexture(DestroyTexture(@, s1.rt.outputTexture),
                                              s1.rt.accumulationTexture)]
      s3 == createTextures(s2)
      s4 == createBindGroup(s3)
  IN resetAccumulation(s4)

\* render: the uniforms and scene buffers are written, one compute pass is
\* submitted, then the host counters advance.  A submit whose bind group
\* names a destroyed texture is rejected by validation and runs nothing.
Uniforms(s, scene, settings) ==
  [width |-> settings.width, height |-> settings.height,
   frameIndex |-> s.rt.frameIndex, maxBounces |-> settings.maxBounces,
   sampleCount |-> s.rt.sampleCount]

Dispatch(s, scene, settings, n) ==
  [uniforms |-> Uniforms(s, scene, settings),
   camera |-> s.gpu.cameraBuffer, scene |-> s.gpu.sceneBuffer,
   bindGroup |-> s.rt.bindGroup,
   groupsX |-> Ceil(settings.width, WorkgroupSize),
   groupsY |-> Ceil(settings.height, WorkgroupSize),
   render |-> n]

\* fault: a render that assigns the sample counter instead of adding to it
renderAssignsCount(s, scene, settings, n) ==
  LET s1 == writeSceneBuffers(s, scene)
      valid == /\ s1.rt.bindGroup.output \notin s1.gpu.destroyed
               /\ s1.rt.bindGroup.accumulation \notin s1.gpu.destroyed
      s2 == IF valid
            THEN [s1 EXCEPT !.gpu.queue = Append(@, Dispatch(s1, scene, settings, n))]
            ELSE s1
  IN [s2 EXCEPT !.rt.frameIndex = @ + 1,
                !.rt.sampleCount = settings.samplesPerFrame]

\* fault: a render that counts the one sample the kernel took
renderCountsOne(s, scene, settings, n) ==
  LET s1 == writeSceneBuffers(s, scene)
      valid == /\ s1.rt.bindGroup.output \notin s1.gpu.destroyed
               /\ s1.rt.bindGroup.accumulation \notin s1.gpu.destroyed
      s2 == IF valid
            THEN [s1 EXCEPT !.gpu.queue = Append(@, Dispatch(s1, scene, settings, n))]
            ELSE s1
  IN [s2 EXCEPT !.rt.frameIndex = @ + 1,
                !.rt.sampleCount = @ + 1]

render(s, scene, settings, n) ==
  LET s1 == writeSceneBuffers(s, scene)
      valid == /\ s1.rt.bindGroup.output \notin s1.gpu.destroyed
               /\ s1.rt.bindGroup.accumulation \notin s1.gpu.destroyed
      s2 == IF valid
            THEN [s1 EXCEPT !.gpu.queue = Append(@, Dispatch(s1, scene, settings, n))]
            ELSE s1
  IN [s2 EXCEPT !.rt.frameIndex = @ + 1,
                !.rt.sampleCount = @ + settings.samplesPerFrame]

\* ---------------------------------------------------------------- kernel
\* main(): the invocations of the dispatched grid
Invocations(d) ==
  (0..(d.groupsX * WorkgroupSize - 1)) \X (0..(d.groupsY * WorkgroupSize - 1))

\* the early return of main(): invocations outside the image do nothing
InImage(d, p) == ~(p[1] >= d.uniforms.width \/ p[2] >= d.uniforms.height)

\* the (ghost) record of one traced sample
SampleTag(d, prev, color) ==
  [render |-> d.render, frameIndex |-> d.uniforms.frameIndex,
   sampleCount |-> d.uniforms.sampleCount, maxBounces |-> d.uniforms.maxBounces,
   camera |-> d.camera, scene |-> d.scene, prev |-> prev, color |-> color]

\* the `for (var s = 0u; s < 1u; s++)` loop and the store to accumulationTex
KernelAccumulate(d, prev, color) ==
  [rgb |-> VAdd(prev.rgb, color),
   samples |-> Append(prev.samples, SampleTag(d, prev.rgb, color)),
   divisor |-> d.uniforms.sampleCount + 1]

\* fault: the sum is gamma-corrected without being averaged
KernelOutputSum(d, acc) == GammaCorrect(acc.rgb)

\* avgColor, gammaColor and the store to outputTex
KernelOutput(d, acc) ==
  LET sampleCount == d.uniforms.sampleCount + 1
  IN GammaCorrect(VDivScalar(acc.rgb, sampleCount))

\* fault: a kernel that does not read the previous sum
textureLoadNothing(tex, p) == ZeroTexel

\* textureLoad(accumulationTex, pixel): a load outside the texture yields zero
textureLoad(tex, p) == IF p \in DOMAIN tex.texels THEN tex.texels[p] ELSE ZeroTexel

\* one whole dispatch on the device; a textureStore outside the texture is
\* dropped
RunDispatch(g, d, colors) ==
  LET accT == g.textures[d.bindGroup.accumulation]
      outT == g.textures[d.bindGroup.output]
      active == {p \in Invocations(d) : InImage(d, p)}
      NewAcc(p) == KernelAccumulate(d, textureLoad(accT, p), colors[p])
      accT2 == [accT EXCEPT !.texels =
                  [p \in DOMAIN accT.texels |-> IF p \in active THEN NewAcc(p) ELSE @[p]]]
      outT2 == [outT EXCEPT !.texels =
                  [p \in DOMAIN outT.texels |-> IF p \in active THEN KernelOutput(d, NewAcc(p)) ELSE @[p]]]
  IN [g EXCEPT !.textures = [id \in DOMAIN @ |->
                               IF id = d.bindGroup.accumulation THEN accT2
                               ELSE IF id = d.bindGroup.output THEN outT2
                               ELSE @[id]]]

\* ----------------------------------------------------- kernel: path tracer
\* Geometry and radiance are fixed-point integers in units of 1/Fix; a
\* float division or square root truncates to the unit.
F(n) == n * Fix

VSub(a, b) == <<a[1] - b[1], a[2] - b[2], a[3] - b[3]>>
VNeg(a) == <<-a[1], -a[2], -a[3]>>
\* the raw dot product (units of 1/Fix^2)
Dot2(a, b) == a[1] * b[1] + a[2] * b[2] + a[3] * b[3]
\* dot(a, b)
dot(a, b) == Dot2(a, b) \div Fix
\* s * v and v / s for a fixed-point scalar s
VScale(v, s) == <<(v[1] * s) \div Fix, (v[2] * s) \div Fix, (v[3] * s) \div Fix>>
VDiv(v, s) == <<(v[1] * Fix) \div s, (v[2] * Fix) \div s, (v[3] * Fix) \div s>>
\* the component-wise product of `throughput *= material.albedo`
VMul(a, b) == <<(a[1] * b[1]) \div Fix, (a[2] * b[2]) \div Fix, (a[3] * b[3]) \div Fix>>

RECURSIVE ISqrtIn(_, _, _)
ISqrtIn(n, lo, hi) ==
  IF lo >= hi THEN lo
  ELSE CHOOSE r \in {IF mid * mid <= n THEN ISqrtIn(n, mid, hi) ELSE ISqrtIn(n, lo, mid - 1) :
                       mid \in {(lo + hi + 1) \div 2}} : TRUE

\* the integer square root (v holds the value of n)
ISqrt(n) ==
  CHOOSE r \in {ISqrtIn(v, 0, IF v < 46340 THEN v ELSE 46340) : v \in {n}} : TRUE

\* sqrt(x) of a fixed-point x
sqrt(x) == ISqrt(x * Fix)

length(v) == ISqrt(Dot2(v, v))
normalize(v) == VDiv(v, length(v))

\* hitSphere returns -1.0 for no hit
NoHit == -Fix

\* fault: the larger root is tested first
hitSphereFarFirst(sphere, rayOrigin, rayDir, tMin, tMax) ==
  LET oc == VSub(rayOrigin, sphere.center)
      a == Dot2(rayDir, rayDir)
      halfB == Dot2(oc, rayDir)
      c == Dot2(oc, oc) - sphere.radius * sphere.radius
      discriminant == halfB * halfB - a * c
      sqrtd == ISqrt(discriminant)
      root1 == ((-halfB - sqrtd) * Fix) \div a
      root2 == ((-halfB + sqrtd) * Fix) \div a
  IN IF discriminant < 0 THEN NoHit
     ELSE IF ~(root2 < tMin \/ root2 > tMax) THEN root2
     ELSE IF root1 < tMin \/ root1 > tMax THEN NoHit
     ELSE root1

hitSphere(sphere, rayOrigin, rayDir, tMin, tMax) ==
  LET oc == VSub(rayOrigin, sphere.center)
      a == Dot2(rayDir, rayDir)
      halfB == Dot2(oc, rayDir)
      c == Dot2(oc, oc) - sphere.radius * sphere.radius
      discriminant == halfB * halfB - a * c
      sqrtd == ISqrt(discriminant)
      root1 == ((-halfB - sqrtd) * Fix) \div a
      root2 == ((-halfB + sqrtd) * Fix) \div a
  IN IF discriminant < 0 THEN NoHit
     ELSE IF ~(root1 < tMin \/ root1 > tMax) THEN root1
     ELSE IF root2 < tMin \/ root2 > tMax THEN NoHit
     ELSE root2

\* `var rec: HitRecord;` is zero-initialised
ZeroRec == [t |-> 0, p |-> <<0, 0, 0>>, normal |-> <<0, 0, 0>>, frontFace |-> FALSE,
            materialIndex |-> 0]

\* fault: the outward normal is stored without the flip
HitRecOutward(sphere, rayOrigin, rayDir, t) ==
  LET p == VAdd(rayOrigin, VScale(rayDir, t))
      outward == VDiv(VSub(p, sphere.center), sphere.radius)
  IN [t |-> t, p |-> p, normal |-> outward,
      frontFace |-> Dot2(rayDir, outward) < 0,
      materialIndex |-> sphere.materialIndex]

HitRec(sphere, rayOrigin, rayDir, t) ==
  LET p == VAdd(rayOrigin, VScale(rayDir, t))
      outward == VDiv(VSub(p, sphere.center), sphere.radius)
      frontFace == Dot2(rayDir, outward) < 0
  IN [t |-> t, p |-> p,
      normal |-> IF frontFace THEN outward ELSE VNeg(outward),
      frontFace |-> frontFace,
      materialIndex |-> sphere.materialIndex]

\* fault: a scan that does not narrow the range to the closest hit so far
RECURSIVE closestHitFromWide(_, _, _, _, _, _, _)
closestHitFromWide(spheres, i, rayOrigin, rayDir, tMin, closestSoFar, rec) ==
  IF i > Len(spheres) THEN rec
  ELSE LET t == hitSphere(spheres[i], rayOrigin, rayDir, tMin, closestSoFar)
       IN IF t > 0
          THEN closestHitFromWide(spheres, i + 1, rayOrigin, rayDir, tMin, closestSoFar,
                                  [hit |-> TRUE, rec |-> HitRec(spheres[i], rayOrigin, rayDir, t)])
          ELSE closestHitFromWide(spheres, i + 1, rayOrigin, rayDir, tMin, closestSoFar, rec)

\* the scan of closestHit from sphere i on (spheres are numbered from 0 in
\* the kernel, from 1 here)
RECURSIVE closestHitFrom(_, _, _, _, _, _, _)
closestHitFrom(spheres, i, rayOrigin, rayDir, tMin, closestSoFar, rec) ==
  IF i > Len(spheres) THEN rec
  ELSE LET t == hitSphere(spheres[i], rayOrigin, rayDir, tMin, closestSoFar)
       IN IF t > 0
          THEN closestHitFrom(spheres, i + 1, rayOrigin, rayDir, tMin, t,
                              [hit |-> TRUE, rec |-> HitRec(spheres[i], rayOrigin, rayDir, t)])
          ELSE closestHitFrom(spheres, i + 1, rayOrigin, rayDir, tMin, closestSoFar, rec)

closestHit(spheres, rayOrigin, rayDir, tMin, tMax) ==
  LET r == closestHitFrom(spheres, 1, rayOrigin, rayDir, tMin, tMax,
                          [hit |-> FALSE, rec |-> ZeroRec])
  IN IF ~r.hit THEN [r.rec EXCEPT !.t = NoHit] ELSE r.rec

\* the sky gradient of the miss branch of rayColor
skyColor(dir) ==
  LET unitDir == normalize(dir)
      t == (unitDir[2] + Fix) \div 2
      white == <<Fix, Fix, Fix>>
      blue == <<(5 * Fix) \div 10, (7 * Fix) \div 10, Fix>>
  IN VAdd(VScale(white, Fix - t), VScale(blue, t))

near_zero(v) == v[1] = 0 /\ v[2] = 0 /\ v[3] = 0

reflect(v, n) == VSub(v, VScale(n, 2 * dot(v, n)))

refract(uv, n, etai_over_etat) ==
  LET cos_theta == Min(dot(VNeg(uv), n), Fix)
      r_out_perp == VScale(VAdd(uv, VScale(n, cos_theta)), etai_over_etat)
      d == Fix - dot(r_out_perp, r_out_perp)
      r_out_parallel == VScale(n, -sqrt(IF d < 0 THEN -d ELSE d))
  IN VAdd(r_out_perp, r_out_parallel)

reflectance(cosine, ref_idx) ==
  LET q == ((Fix - ref_idx) * Fix) \div (Fix + ref_idx)
      r0 == (q * q) \div Fix
      pow5 == ((Fix - cosine) ^ 5) \div (Fix ^ 4)
  IN r0 + ((Fix - r0) * pow5) \div Fix

\* no rayColor evaluation is modelled while the host runs
RayIdle == [pc |-> "idle"]

\* ------------------------------------------------------------------ state
VARIABLES
  initialized,     \* RaytracingApp.raytracer is not null
  isRunning,       \* RaytracingApp.isRunning
  settings,        \* RaytracingApp.settings
  currentScene,    \* RaytracingApp.currentScene
  sceneType,       \* RaytracingApp.sceneType
  animateCamera,   \* RaytracingApp.animateCamera
  cameraAngle,     \* RaytracingApp.cameraAngle, in steps of 0.005 rad
  rt,              \* the Raytracer object
  gpu,             \* the GPU device: textures, buffers, queue
  hist,            \* ghost: the render calls since the last reset
  totalRenders,    \* ghost: render calls so far
  ray              \* one evaluation of the kernel's rayColor

vars == <<initialized, isRunning, settings, currentScene, sceneType, animateCamera, cameraAngle,
          rt, gpu, hist, totalRenders, ray>>

hostVars == <<initialized, isRunning, settings, currentScene, sceneType, animateCamera,
              cameraAngle, rt, gpu, hist, totalRenders>>

appVars == <<settings, currentScene, sceneType, animateCamera, cameraAngle>>

Init ==
  /\ initialized = FALSE
  /\ isRunning = FALSE
  /\ settings = [samplesPerFrame |-> DefaultSamplesPerFrame, maxBounces |-> DefaultMaxBounces,
                 width |-> DefaultWidth, height |-> DefaultHeight]
  /\ currentScene = SCENE_DEFAULT
  /\ sceneType = "default"
  /\ animateCamera = TRUE
  /\ cameraAngle = 0
  /\ rt = NewRaytracer(0, 0)
  /\ gpu = NewDevice
  /\ hist = <<>>
  /\ totalRenders = 0
  /\ ray = RayIdle

\* the state pair the Raytracer operators work on
S == [rt |-> rt, gpu |-> gpu]

\* `this.raytracer?.op()`: the operation runs only on an existing raytracer
Apply(s2) ==
  /\ rt' = Renumber(s2).rt
  /\ gpu' = Renumber(s2).gpu
  /\ hist' = <<>>

Skip == UNCHANGED <<rt, gpu, hist>>

\* RaytracingApp.initialize: new Raytracer(...settings.width, settings.height)
\* and raytracer.initialize(currentScene)
Initialize ==
  /\ ~initialized
  /\ initialized' = TRUE
  /\ LET s2 == initialize([rt |-> NewRaytracer(settings.width, settings.height), gpu |-> gpu],
                          currentScene)
     IN Apply(s2)
  /\ UNCHANGED <<isRunning, appVars, totalRenders, ray>>

\* animateCameraPosition
animateCameraPosition(scene, angle) ==
  [scene EXCEPT !.camera.origin = angle]

\* RaytracingApp.render, the animation-frame callback
DoRender ==
  /\ totalRenders < MaxRenders
  /\ Len(gpu.queue) < MaxQueue
  /\ cameraAngle' = IF animateCamera THEN cameraAngle + 1 ELSE cameraAngle
  /\ currentScene' = IF animateCamera
                     THEN animateCameraPosition(currentScene, cameraAngle')
                     ELSE currentScene
  /\ LET s2 == render(S, currentScene', settings, totalRenders + 1)
     IN /\ rt' = Renumber(s2).rt
        /\ gpu' = Renumber(s2).gpu
        /\ hist' = Append(hist, [samplesPerFrame |-> settings.samplesPerFrame,
                                 returned |-> s2.rt.sampleCount,
                                 render |-> totalRenders + 1])
  /\ totalRenders' = totalRenders + 1
  /\ UNCHANGED <<initialized, settings, sceneType, animateCamera, ray>>

\* RaytracingApp.start, called once by main() after initialize
Start ==
  /\ initialized
  /\ ~isRunning
  /\ isRunning' = TRUE
  /\ DoRender

RenderFrame ==
  /\ initialized
  /\ isRunning
  /\ UNCHANGED isRunning
  /\ DoRender

\* samples-per-frame slider: an input event carries a changed value
SpfInput ==
  \E v \in SpfChoices \ {settings.samplesPerFrame} :
    /\ settings' = [settings EXCEPT !.samplesPerFrame = v]
    /\ Skip
    /\ UNCHANGED <<initialized, isRunning, currentScene, sceneType, animateCamera, cameraAngle,
                   totalRenders, ray>>

\* fault: a max-bounces handler that leaves the accumulation alone
BouncesInputNoReset ==
  \E v \in BounceChoices \ {settings.maxBounces} :
    /\ settings' = [settings EXCEPT !.maxBounces = v]
    /\ Skip
    /\ UNCHANGED <<initialized, isRunning, currentScene, sceneType, animateCamera, cameraAngle,
                   totalRenders, ray>>

\* max-bounces slider: an input event carries a changed value
BouncesInput ==
  \E v \in BounceChoices \ {settings.maxBounces} :
    /\ settings' = [settings EXCEPT !.maxBounces = v]
    /\ IF initialized
       THEN Apply(resetAccumulation(S))
       ELSE Skip
    /\ UNCHANGED <<initialized, isRunning, currentScene, sceneType, animateCamera, cameraAngle,
                   totalRenders, ray>>

\* scene select: a change event carries a changed selection; loadScene
SceneChange ==
  \E type \in SceneTypes \ {sceneType} :
    /\ sceneType' = type
    /\ currentScene' = SceneOf(type)
    /\ IF initialized
       THEN Apply(updateScene(S, currentScene'))
       ELSE Skip
    /\ UNCHANGED <<initialized, isRunning, settings, animateCamera, cameraAngle,
                   totalRenders, ray>>

\* animate checkbox: a change event toggles it
AnimateChange ==
  \E b \in {~animateCamera} :
    /\ animateCamera' = b
    /\ IF ~b /\ initialized
       THEN Apply(resetAccumulation(S))
       ELSE Skip
    /\ UNCHANGED <<initialized, isRunning, settings, currentScene, sceneType, cameraAngle,
                   totalRenders, ray>>

\* reset button
ResetClick ==
  /\ IF initialized
     THEN Apply(resetAccumulation(S))
     ELSE Skip
  /\ UNCHANGED <<initialized, isRunning, appVars, totalRenders, ray>>

\* fault: a resize that reaches the raytracer but not the settings
HandleResizeKeepsSettings ==
  \E rw \in 0..MaxRectWidth, rh \in 0..MaxRectHeight :
    LET w == IF rw = 0 THEN DefaultWidth ELSE rw
        h == IF rh = 0 THEN DefaultHeight ELSE rh
    IN /\ UNCHANGED settings
       /\ IF initialized
          THEN Apply(resize(S, w, h))
          ELSE Skip
       /\ UNCHANGED <<initialized, isRunning, currentScene, sceneType, animateCamera, cameraAngle,
                      totalRenders, ray>>

\* window resize: handleResize
HandleResize ==
  \E rw \in 0..MaxRectWidth, rh \in 0..MaxRectHeight :
    LET w == IF rw = 0 THEN DefaultWidth ELSE rw
        h == IF rh = 0 THEN DefaultHeight ELSE rh
    IN /\ settings' = [settings EXCEPT !.width = w, !.height = h]
       /\ IF initialized
          THEN Apply(resize(S, w, h))
          ELSE Skip
       /\ UNCHANGED <<initialized, isRunning, currentScene, sceneType, animateCamera, cameraAngle,
                      totalRenders, ray>>

\* the GPU executes the oldest submitted dispatch
GpuStep ==
  /\ gpu.queue # <<>>
  /\ LET d == Head(gpu.queue)
         active == {p \in Invocations(d) : InImage(d, p)}
     IN \E colors \in [active -> SampleColors] :
          LET g2 == Release([RunDispatch(gpu, d, colors) EXCEPT !.queue = Tail(@)])
              s2 == Renumber([rt |-> rt, gpu |-> g2])
          IN rt' = s2.rt /\ gpu' = s2.gpu
  /\ UNCHANGED <<initialized, isRunning, appVars, hist, totalRenders, ray>>

Next ==
  \/ Initialize
  \/ Start
  \/ RenderFrame
  \/ SpfInput
  \/ BouncesInput
  \/ SceneChange
  \/ AnimateChange
  \/ ResetClick
  \/ HandleResize
  \/ GpuStep

Spec == Init /\ [][Next]_vars


\* ------------------------------------------------- rayColor, step by step
\* the materials and spheres rayColor is evaluated on: a diffuse, a metal,
\* a glass, an untyped and a mirror sphere around the origin
RayMaterials ==
  << [materialType |-> 0, albedo |-> <<Fix \div 2, Fix \div 2, Fix \div 2>>,
      fuzz |-> 0, refractionIndex |-> 0],
     [materialType |-> 1, albedo |-> <<Fix, Fix \div 2, Fix \div 2>>,
      fuzz |-> Fix \div 2, refractionIndex |-> 0],
     [materialType |-> 2, albedo |-> <<Fix, Fix, Fix>>,
      fuzz |-> 0, refractionIndex |-> (3 * Fix) \div 2],
     [materialType |-> 3, albedo |-> <<Fix, Fix, Fix>>,
      fuzz |-> 0, refractionIndex |-> 0],
     [materialType |-> 1, albedo |-> <<Fix, Fix, Fix>>,
      fuzz |-> 0, refractionIndex |-> 0] >>

RaySpheres ==
  << [center |-> <<0, 0, F(-3)>>, radius |-> F(1), materialIndex |-> 0],
     [center |-> <<F(3), 0, 0>>, radius |-> F(1), materialIndex |-> 1],
     [center |-> <<F(-3), 0, 0>>, radius |-> F(1), materialIndex |-> 2],
     [center |-> <<0, 0, F(3)>>, radius |-> F(1), materialIndex |-> 3],
     [center |-> <<0, F(3), 0>>, radius |-> F(1), materialIndex |-> 4] >>

RayScenes ==
  { [spheres |-> <<>>, materials |-> <<>>],
    [spheres |-> RaySpheres, materials |-> RayMaterials] }

\* the origin, the centre of the glass sphere, and a point inside it from
\* which the -z ray meets the surface beyond the critical angle
RayOrigins == { <<0, 0, 0>>, <<F(-3), 0, 0>>, <<F(-3) - 3, 2, 0>> }
RayDirs ==
  { <<0, 0, F(-1)>>, <<F(1), 0, 0>>, <<F(-1), 0, 0>>, <<0, 0, F(1)>>,
    <<0, F(1), 0>>, <<0, F(-1), 0>>, <<F(1), F(1), 0>>, <<F(1), 0, F(-1)>>,
    <<1, 0, 0>>, <<0, -1, F(-1)>> }

\* the values rand() can return: f32(rngState) / f32(0xffffffffu)
RandValues == 0..Fix

\* the points rand_in_unit_sphere can return: the first p of the rejection
\* loop with dot(p, p) < 1
UnitSpherePoints ==
  {p \in {<<2 * x - Fix, 2 * y - Fix, 2 * z - Fix>> : x \in RandValues, y \in RandValues, z \in RandValues} :
     Dot2(p, p) < Fix * Fix}

\* rayColor(rayOrigin, rayDir, depth) before its loop
RayStart(scene, rayOrigin, rayDir, depth) ==
  [pc |-> "loop", spheres |-> scene.spheres, materials |-> scene.materials,
   rayOrigin |-> rayOrigin, rayDir |-> rayDir, depth |-> depth,
   currentOrigin |-> rayOrigin, currentDir |-> rayDir,
   throughput |-> <<Fix, Fix, Fix>>, i |-> 0, rec |-> ZeroRec, result |-> <<0, 0, 0>>]

InitRay ==
  /\ initialized = FALSE
  /\ isRunning = FALSE
  /\ settings = [samplesPerFrame |-> DefaultSamplesPerFrame, maxBounces |-> DefaultMaxBounces,
                 width |-> DefaultWidth, height |-> DefaultHeight]
  /\ currentScene = SCENE_DEFAULT
  /\ sceneType = "default"
  /\ animateCamera = TRUE
  /\ cameraAngle = 0
  /\ rt = NewRaytracer(0, 0)
  /\ gpu = NewDevice
  /\ hist = <<>>
  /\ totalRenders = 0
  /\ \E scene \in RayScenes, o \in RayOrigins, d \in RayDirs, depth \in 0..MaxDepth :
       ray = RayStart(scene, o, d, depth)

\* `rec`, the hit of the current loop iteration
RayRec == ray.rec
RayMaterial == ray.materials[RayRec.materialIndex + 1]
\* fault: a bounce loop that stops one iteration early
LoopCondShort == ray.i + 1 < ray.depth
\* fault: a bounce loop that runs one iteration too many
LoopCondLong == ray.i <= ray.depth
\* the loop condition `i < depth`
LoopCond == ray.i < ray.depth
InLoop == ray.pc = "loop" /\ LoopCond
\* the loop body after `let rec = closestHit(...)`
InBody == ray.pc = "hit"

RayReturn(color) == ray' = [ray EXCEPT !.pc = "done", !.result = color]

RayContinue(origin, dir, throughput) ==
  ray' = [ray EXCEPT !.pc = "loop", !.currentOrigin = origin, !.currentDir = dir,
                     !.throughput = throughput, !.i = @ + 1]

\* `let rec = closestHit(currentOrigin, currentDir, 0.001, 1e30)` at the head
\* of an iteration
RayClosestHit ==
  /\ InLoop
  /\ ray' = [ray EXCEPT !.pc = "hit",
                        !.rec = closestHit(ray.spheres, ray.currentOrigin, ray.currentDir,
                                           TMin, TMax)]
  /\ UNCHANGED hostVars

\* `if (rec.t < 0.0)`: the ray left the scene
RayMiss ==
  /\ InBody
  /\ RayRec.t < 0
  /\ RayReturn(VMul(ray.throughput, skyColor(ray.currentDir)))
  /\ UNCHANGED hostVars

\* materialType == 0u: Lambertian (a zero point has no direction and is
\* not drawn)
RayLambertian ==
  /\ InBody
  /\ ~(RayRec.t < 0)
  /\ RayMaterial.materialType = 0
  /\ \E p \in UnitSpherePoints \ {<<0, 0, 0>>} :
       LET sum == VAdd(RayRec.normal, normalize(p))
           scatterDir == IF near_zero(sum) THEN RayRec.normal ELSE sum
       IN RayContinue(RayRec.p, scatterDir, VMul(ray.throughput, RayMaterial.albedo))
  /\ UNCHANGED hostVars

\* fault: a Metal branch that adds the whole random point, not fuzz times it
RayMetalRough ==
  /\ InBody
  /\ ~(RayRec.t < 0)
  /\ RayMaterial.materialType = 1
  /\ \E p \in UnitSpherePoints :
       LET reflected == reflect(ray.currentDir, RayRec.normal)
           scattered == VAdd(reflected, p)
       IN IF Dot2(scattered, RayRec.normal) <= 0
          THEN RayReturn(<<0, 0, 0>>)
          ELSE RayContinue(RayRec.p, scattered, VMul(ray.throughput, RayMaterial.albedo))
  /\ UNCHANGED hostVars

\* fault: a Metal branch that returns what the path has gathered when the
\* ray is scattered into the surface
RayMetalKeepsThroughput ==
  /\ InBody
  /\ ~(RayRec.t < 0)
  /\ RayMaterial.materialType = 1
  /\ \E p \in UnitSpherePoints :
       LET reflected == reflect(ray.currentDir, RayRec.normal)
           scattered == VAdd(reflected, VScale(p, RayMaterial.fuzz))
       IN IF Dot2(scattered, RayRec.normal) <= 0
          THEN RayReturn(ray.throughput)
          ELSE RayContinue(RayRec.p, scattered, VMul(ray.throughput, RayMaterial.albedo))
  /\ UNCHANGED hostVars

\* materialType == 1u: Metal
RayMetal ==
  /\ InBody
  /\ ~(RayRec.t < 0)
  /\ RayMaterial.materialType = 1
  /\ \E p \in UnitSpherePoints :
       LET reflected == reflect(ray.currentDir, RayRec.normal)
           scattered == VAdd(reflected, VScale(p, RayMaterial.fuzz))
       IN IF Dot2(scattered, RayRec.normal) <= 0
          THEN RayReturn(<<0, 0, 0>>)
          ELSE RayContinue(RayRec.p, scattered, VMul(ray.throughput, RayMaterial.albedo))
  /\ UNCHANGED hostVars

\* fault: a Dielectric branch that decides by the Schlick draw alone
RayDielectricNoTIR ==
  /\ InBody
  /\ ~(RayRec.t < 0)
  /\ RayMaterial.materialType = 2
  /\ \E r \in RandValues :
       LET refractionRatio == IF RayRec.frontFace
                              THEN (Fix * Fix) \div RayMaterial.refractionIndex
                              ELSE RayMaterial.refractionIndex
           unitDir == normalize(ray.currentDir)
           cosTheta == Min(dot(VNeg(unitDir), RayRec.normal), Fix)
           direction == IF reflectance(cosTheta, refractionRatio) > r
                        THEN reflect(unitDir, RayRec.normal)
                        ELSE refract(unitDir, RayRec.normal, refractionRatio)
       IN RayContinue(RayRec.p, direction, VMul(ray.throughput, RayMaterial.albedo))
  /\ UNCHANGED hostVars

\* materialType == 2u: Dielectric
RayDielectric ==
  /\ InBody
  /\ ~(RayRec.t < 0)
  /\ RayMaterial.materialType = 2
  /\ \E r \in RandValues :
       LET refractionRatio == IF RayRec.frontFace
                              THEN (Fix * Fix) \div RayMaterial.refractionIndex
                              ELSE RayMaterial.refractionIndex
           unitDir == normalize(ray.currentDir)
           cosTheta == Min(dot(VNeg(unitDir), RayRec.normal), Fix)
           sinTheta == sqrt(Fix - (cosTheta * cosTheta) \div Fix)
           cannotRefract == (refractionRatio * sinTheta) \div Fix > Fix
           direction == IF cannotRefract \/ reflectance(cosTheta, refractionRatio) > r
                        THEN reflect(unitDir, RayRec.normal)
                        ELSE refract(unitDir, RayRec.normal, refractionRatio)
       IN RayContinue(RayRec.p, direction, VMul(ray.throughput, RayMaterial.albedo))
  /\ UNCHANGED hostVars

\* fault: an unknown materialType continues the path from the hit point
RayUntypedMoves ==
  /\ InBody
  /\ ~(RayRec.t < 0)
  /\ RayMaterial.materialType \notin {0, 1, 2}
  /\ RayContinue(RayRec.p, RayRec.normal, ray.throughput)
  /\ UNCHANGED hostVars

\* any other materialType: no branch of the if-chain runs
RayUntyped ==
  /\ InBody
  /\ ~(RayRec.t < 0)
  /\ RayMaterial.materialType \notin {0, 1, 2}
  /\ ray' = [ray EXCEPT !.pc = "loop", !.i = @ + 1]
  /\ UNCHANGED hostVars

\* the loop ran out of budget: `return vec3f(0.0)`
RayExhausted ==
  /\ ray.pc = "loop"
  /\ ~LoopCond
  /\ RayReturn(<<0, 0, 0>>)
  /\ UNCHANGED hostVars

NextRay ==
  \/ RayClosestHit
  \/ RayMiss
  \/ RayLambertian
  \/ RayMetal
  \/ RayDielectric
  \/ RayUntyped
  \/ RayExhausted

SpecRay == InitRay /\ [][NextRay]_vars

\* an invocation that has started rayColor keeps executing it
SpecRayFair == InitRay /\ [][NextRay]_vars /\ WF_vars(NextRay)

\* ------------------------------------------------------ kernel: the RNG
\* A u32 is the pair <<high 16 bits, low 16 bits>>; all operations wrap
\* modulo 2^32 as WGSL's u32 arithmetic does.
U32(hi, lo) == <<hi, lo>>
U32Of(n) == <<n \div 65536, n % 65536>>

U32Add(a, b) ==
  LET lo == a[2] + b[2]
  IN <<(a[1] + b[1] + lo \div 65536) % 65536, lo % 65536>>

\* the 32-bit product of two 16-bit numbers, by 8-bit halves
Mul16(x, y) ==
  LET xh == x \div 256
      xl == x % 256
      yh == y \div 256
      yl == y % 256
      mid == xh * yl + xl * yh
      low == xl * yl + (mid % 256) * 256
  IN <<xh * yh + mid \div 256 + low \div 65536, low % 65536>>

U32Mul(a, b) ==
  LET p == Mul16(a[2], b[2])
  IN <<(p[1] + Mul16(a[1], b[2])[2] + Mul16(a[2], b[1])[2]) % 65536, p[2]>>

\* a >> k for 0 <= k <= 31
U32Shr(a, k) ==
  IF k >= 16
  THEN <<0, a[1] \div (2 ^ (k - 16))>>
  ELSE <<a[1] \div (2 ^ k), a[2] \div (2 ^ k) + (a[1] % (2 ^ k)) * (2 ^ (16 - k))>>

RECURSIVE XorBits(_, _, _)
XorBits(x, y, n) ==
  IF n = 0 THEN 0 ELSE ((x + y) % 2) + 2 * XorBits(x \div 2, y \div 2, n - 1)

U32Xor(a, b) == <<XorBits(a[1], b[1], 16), XorBits(a[2], b[2], 16)>>

U32Less(a, b) == a[1] < b[1] \/ (a[1] = b[1] /\ a[2] < b[2])

pcg_hash(input) ==
  LET state == U32Add(U32Mul(input, U32(11410, 30645)), U32(44118, 19205))
      word == U32Mul(U32Xor(U32Shr(state, U32Shr(state, 28)[2] + 4), state), U32(4238, 62169))
  IN U32Xor(U32Shr(word, 22), word)

\* f32(x) of a u32 x: x itself when it has at most 24 significant bits,
\* else one of the two neighbouring floats (WGSL fixes no rounding mode).
\* The result is a pair like a u32 whose high part can reach 65536 (2^32).
RECURSIVE BitLen(_)
BitLen(n) == IF n = 0 THEN 0 ELSE 1 + BitLen(n \div 2)

F32OfU32(x) ==
  LET e == BitLen(x[1]) - 8
  IN IF e <= 0 \/ x[2] % (2 ^ e) = 0
     THEN {x}
     ELSE LET down == <<x[1], x[2] - (x[2] % (2 ^ e))>>
              upLo == down[2] + 2 ^ e
          IN {down, <<x[1] + upLo \div 65536, upLo % 65536>>}

\* ------------------------------------------------------ rand(), call by call
\* the RNG states rand() is called in: the seeds main() derives for the
\* first pixels of frame 0, the seed of pixel (729, 346) of frame 0 of an
\* 800 x 600 image, and the states that hash to 0xffffffff, 0xffffff80,
\* 0xffffff7f, 0 and 0x01000003
RngStates ==
  {pcg_hash(U32Of(n)) : n \in 0..MaxSeed}
  \cup {pcg_hash(U32Of(729 + 346 * 800))}
  \cup {U32(33905, 47575), U32(32816, 18610), U32(49129, 33047), U32(6862, 2031),
        U32(1185, 38874)}

InitRand ==
  /\ initialized = FALSE
  /\ isRunning = FALSE
  /\ settings = [samplesPerFrame |-> DefaultSamplesPerFrame, maxBounces |-> DefaultMaxBounces,
                 width |-> DefaultWidth, height |-> DefaultHeight]
  /\ currentScene = SCENE_DEFAULT
  /\ sceneType = "default"
  /\ animateCamera = TRUE
  /\ cameraAngle = 0
  /\ rt = NewRaytracer(0, 0)
  /\ gpu = NewDevice
  /\ hist = <<>>
  /\ totalRenders = 0
  /\ \E r \in RngStates :
       ray = [pc |-> "rng", rngState |-> r, calls |-> 0, num |-> U32Of(0), den |-> U32Of(1)]

\* rand(): the state is hashed, the result is f32(rngState) / f32(0xffffffffu),
\* kept as numerator and denominator
rand ==
  /\ ray.pc = "rng"
  /\ ray.calls < MaxRandCalls
  /\ LET next == pcg_hash(ray.rngState)
     IN \E n \in F32OfU32(next), d \in F32OfU32(U32(65535, 65535)) :
          ray' = [ray EXCEPT !.rngState = next, !.calls = @ + 1, !.num = n, !.den = d]
  /\ UNCHANGED hostVars

NextRand == rand

SpecRand == InitRand /\ [][NextRand]_vars

\* ------------------------------------------- main(): seeding two workers
\* image sizes, frame indices and pixels the seeds are computed for
SeedSizes == { <<2, 2>>, <<3, 2>>, <<1024, 1024>> }
SeedFrames == { 0, 1, 2, 4096 }
SeedPixels(size) ==
  {0, 1, size[1] - 1} \X {0, 1, size[2] - 1}

\* rngState = pcg_hash(u32(pixel.x) + u32(pixel.y) * uniforms.width
\*                     + uniforms.frameIndex * uniforms.width * uniforms.height)
SeedInput(size, pixel, frameIndex) ==
  U32Add(U32Add(U32Of(pixel[1]), U32Mul(U32Of(pixel[2]), U32Of(size[1]))),
         U32Mul(U32Mul(U32Of(frameIndex), U32Of(size[1])), U32Of(size[2])))

InitSeed ==
  /\ initialized = FALSE
  /\ isRunning = FALSE
  /\ settings = [samplesPerFrame |-> DefaultSamplesPerFrame, maxBounces |-> DefaultMaxBounces,
                 width |-> DefaultWidth, height |-> DefaultHeight]
  /\ currentScene = SCENE_DEFAULT
  /\ sceneType = "default"
  /\ animateCamera = TRUE
  /\ cameraAngle = 0
  /\ rt = NewRaytracer(0, 0)
  /\ gpu = NewDevice
  /\ hist = <<>>
  /\ totalRenders = 0
  /\ \E size \in SeedSizes, f1 \in SeedFrames, f2 \in SeedFrames :
       \E p1 \in SeedPixels(size), p2 \in SeedPixels(size) :
         ray = [pc |-> "seed", size |-> size,
                worker1 |-> [pixel |-> p1, frameIndex |-> f1, rngState |-> U32Of(0)],
                worker2 |-> [pixel |-> p2, frameIndex |-> f2, rngState |-> U32Of(0)]]

\* the first statement of main() after the bounds check, in two workers
SeedWorkers ==
  /\ ray.pc = "seed"
  /\ ray' = [ray EXCEPT
               !.pc = "seeded",
               !.worker1.rngState =
                  pcg_hash(SeedInput(ray.size, ray.worker1.pixel, ray.worker1.frameIndex)),
               !.worker2.rngState =
                  pcg_hash(SeedInput(ray.size, ray.worker2.pixel, ray.worker2.frameIndex))]
  /\ UNCHANGED hostVars

NextSeed == SeedWorkers

SpecSeed == InitSeed /\ [][NextSeed]_vars

\* ------------------------------------- main(): the workers of one dispatch
\* image sizes one dispatch is stepped through on
WorkerSizes == { <<1, 1>>, <<2, 1>>, <<1, 2>> }

\* the invocations stepped through: those of the image and those of the
\* column and the row just beyond it (the rest of the 8x8 groups take the
\* same early return)
WorkerGrid(size) == (0..size[1]) \X (0..size[2])

\* the dispatch the workers belong to
WorkerDispatch(size, sampleCount) ==
  [uniforms |-> [width |-> size[1], height |-> size[2], frameIndex |-> sampleCount,
                 maxBounces |-> DefaultMaxBounces, sampleCount |-> sampleCount],
   camera |-> NewDevice.cameraBuffer, scene |-> "default",
   bindGroup |-> [accumulation |-> 1, output |-> 2],
   groupsX |-> Ceil(size[1], WorkgroupSize),
   groupsY |-> Ceil(size[2], WorkgroupSize),
   render |-> sampleCount + 1]

\* the accumulation texture before the dispatch: fresh, or holding one
\* earlier sample per pixel
PriorAccumulations(size) ==
  { [NewTexture(size[1], size[2], "rgba32float") EXCEPT !.texels =
       [p \in DOMAIN @ |->
          IF sampleCount = 0 THEN ZeroTexel
          ELSE KernelAccumulate(WorkerDispatch(size, 0), ZeroTexel, first[p])]] :
    sampleCount \in {0, 1}, first \in [Pixels(size[1], size[2]) -> SampleColors] }

\* the output texture before the dispatch: any content
PriorOutputs(size) ==
  { [NewTexture(size[1], size[2], "rgba8unorm") EXCEPT !.texels = content] :
    content \in [Pixels(size[1], size[2]) -> SampleColors] }

\* textureStore: a store outside the texture is dropped
textureStore(tex, p, value) ==
  IF p \in DOMAIN tex.texels THEN [tex EXCEPT !.texels[p] = value] ELSE tex

\* fault: every worker of a row addresses the first cell of the row
WorkerCellShared(p) == <<0, p[2]>>

\* let pixel = vec2i(globalId.xy)
WorkerCell(p) == <<p[1], p[2]>>

InitWorkers ==
  /\ initialized = FALSE
  /\ isRunning = FALSE
  /\ settings = [samplesPerFrame |-> DefaultSamplesPerFrame, maxBounces |-> DefaultMaxBounces,
                 width |-> DefaultWidth, height |-> DefaultHeight]
  /\ currentScene = SCENE_DEFAULT
  /\ sceneType = "default"
  /\ animateCamera = TRUE
  /\ cameraAngle = 0
  /\ rt = NewRaytracer(0, 0)
  /\ gpu = NewDevice
  /\ hist = <<>>
  /\ totalRenders = 0
  /\ \E size \in WorkerSizes :
       \E acc0 \in PriorAccumulations(size), out0 \in PriorOutputs(size),
          colors \in [Pixels(size[1], size[2]) -> SampleColors] :
         ray = [pc |-> "dispatch",
                d |-> WorkerDispatch(size, Len(acc0.texels[<<0, 0>>].samples)),
                acc0 |-> acc0, out0 |-> out0, acc |-> acc0, out |-> out0,
                colors |-> colors,
                workers |-> [p \in WorkerGrid(size) |->
                               [pc |-> "start", prevColor |-> ZeroTexel,
                                accumulatedColor |-> ZeroTexel]]]

\* the early return of a worker outside the image
WorkerReturn(p) ==
  /\ ray.workers[p].pc = "start"
  /\ ~InImage(ray.d, WorkerCell(p))
  /\ ray' = [ray EXCEPT !.workers[p].pc = "done"]
  /\ UNCHANGED hostVars

\* let prevColor = textureLoad(accumulationTex, pixel)
WorkerLoad(p) ==
  /\ ray.workers[p].pc = "start"
  /\ InImage(ray.d, WorkerCell(p))
  /\ ray' = [ray EXCEPT !.workers[p].pc = "loaded",
                        !.workers[p].prevColor = textureLoad(ray.acc, WorkerCell(p))]
  /\ UNCHANGED hostVars

\* the sample loop and textureStore(accumulationTex, pixel, ...)
WorkerStoreAccumulation(p) ==
  /\ ray.workers[p].pc = "loaded"
  /\ LET accumulated == KernelAccumulate(ray.d, ray.workers[p].prevColor,
                                         ray.colors[WorkerCell(p)])
     IN ray' = [ray EXCEPT !.workers[p].pc = "accumulated",
                           !.workers[p].accumulatedColor = accumulated,
                           !.acc = textureStore(@, WorkerCell(p), accumulated)]
  /\ UNCHANGED hostVars

\* avgColor, gammaColor and textureStore(outputTex, pixel, ...)
WorkerStoreOutput(p) ==
  /\ ray.workers[p].pc = "accumulated"
  /\ ray' = [ray EXCEPT !.workers[p].pc = "done",
                        !.out = textureStore(@, WorkerCell(p),
                                             KernelOutput(ray.d, ray.workers[p].accumulatedColor))]
  /\ UNCHANGED hostVars

WorkerStep(p) ==
  \/ WorkerReturn(p)
  \/ WorkerLoad(p)
  \/ WorkerStoreAccumulation(p)
  \/ WorkerStoreOutput(p)

NextWorkers ==
  /\ ray.pc = "dispatch"
  /\ \E p \in DOMAIN ray.workers : WorkerStep(p)

SpecWorkers == InitWorkers /\ [][NextWorkers]_vars

\* ------------------------------------------------- closestHit, one call
\* the spheres closestHit is called on: a sphere and its twin of another
\* material, a sphere behind them, a sphere around the origin, a sphere
\* whose near side is as far from the origin as the far side of that one,
\* and a sphere of negative radius (the inner surface of a hollow glass ball)
HitPool ==
  { [center |-> <<0, 0, F(-3)>>, radius |-> F(1), materialIndex |-> 0],
    [center |-> <<0, 0, F(-3)>>, radius |-> F(1), materialIndex |-> 1],
    [center |-> <<0, 0, F(-6)>>, radius |-> F(1), materialIndex |-> 2],
    [center |-> <<0, 0, 0>>, radius |-> F(2), materialIndex |-> 3],
    [center |-> <<0, 0, F(-4)>>, radius |-> F(2), materialIndex |-> 4],
    [center |-> <<0, 0, F(-3)>>, radius |-> F(-1), materialIndex |-> 5] }

\* the sphere buffers: lists of up to MaxSpheres different spheres
HitLists ==
  UNION { {q \in [1..n -> HitPool] : \A i, j \in 1..n : i # j => q[i] # q[j]} :
          n \in 0..MaxSpheres }

HitOrigins == { <<0, 0, 0>>, <<0, 0, F(1)>> }
HitDirs == { <<0, 0, F(-1)>>, <<0, 0, F(1)>>, <<0, F(1), F(-3)>> }
HitTMax == { TMax, F(3) }

InitHit ==
  /\ initialized = FALSE
  /\ isRunning = FALSE
  /\ settings = [samplesPerFrame |-> DefaultSamplesPerFrame, maxBounces |-> DefaultMaxBounces,
                 width |-> DefaultWidth, height |-> DefaultHeight]
  /\ currentScene = SCENE_DEFAULT
  /\ sceneType = "default"
  /\ animateCamera = TRUE
  /\ cameraAngle = 0
  /\ rt = NewRaytracer(0, 0)
  /\ gpu = NewDevice
  /\ hist = <<>>
  /\ totalRenders = 0
  /\ \E q \in HitLists, o \in HitOrigins, d \in HitDirs, tMax \in HitTMax :
       ray = [pc |-> "call", spheres |-> q, rayOrigin |-> o, rayDir |-> d,
              tMin |-> TMin, tMax |-> tMax, rec |-> ZeroRec]

\* closestHit(rayOrigin, rayDir, tMin, tMax)
ClosestHitCall ==
  /\ ray.pc = "call"
  /\ ray' = [ray EXCEPT !.pc = "returned",
                        !.rec = closestHit(ray.spheres, ray.rayOrigin, ray.rayDir,
                                           ray.tMin, ray.tMax)]
  /\ UNCHANGED hostVars

NextHit == ClosestHitCall

SpecHit == InitHit /\ [][NextHit]_vars

\* -------------------------------------------------- hitSphere, one call
\* the spheres hitSphere is called on: those of the closestHit calls
SpherePool == HitPool

\* origins in front of, inside and behind the spheres
SphereOrigins == { <<0, 0, 0>>, <<0, 0, F(1)>>, <<0, 0, F(-3)>>, <<0, 0, F(-8)>> }
SphereDirs == HitDirs \cup { <<0, F(1), 0>> }
SphereTMax == { TMax, F(3), F(2) }

InitSphere ==
  /\ initialized = FALSE
  /\ isRunning = FALSE
  /\ settings = [samplesPerFrame |-> DefaultSamplesPerFrame, maxBounces |-> DefaultMaxBounces,
                 width |-> DefaultWidth, height |-> DefaultHeight]
  /\ currentScene = SCENE_DEFAULT
  /\ sceneType = "default"
  /\ animateCamera = TRUE
  /\ cameraAngle = 0
  /\ rt = NewRaytracer(0, 0)
  /\ gpu = NewDevice
  /\ hist = <<>>
  /\ totalRenders = 0
  /\ \E sphere \in SpherePool, o \in SphereOrigins, d \in SphereDirs, tMax \in SphereTMax :
       ray = [pc |-> "call", sphere |-> sphere, rayOrigin |-> o, rayDir |-> d,
              tMin |-> TMin, tMax |-> tMax, root |-> 0]

\* hitSphere(sphere, rayOrigin, rayDir, tMin, tMax)
HitSphereCall ==
  /\ ray.pc = "call"
  /\ ray' = [ray EXCEPT !.pc = "returned",
                        !.root = hitSphere(ray.sphere, ray.rayOrigin, ray.rayDir,
                                           ray.tMin, ray.tMax)]
  /\ UNCHANGED hostVars

NextSphere == HitSphereCall

SpecSphere == InitSphere /\ [][NextSphere]_vars

\* ------------------------------------- rand_in_unit_sphere / rand_in_unit_disk
\* the candidate points one pass of the loop can build from its calls of
\* rand(), whatever the generator does
CubePoints ==
  {<<2 * x - Fix, 2 * y - Fix, 2 * z - Fix>> : x \in RandValues, y \in RandValues, z \in RandValues}
SquarePoints ==
  {<<2 * x - Fix, 2 * y - Fix, 0>> : x \in RandValues, y \in RandValues}
Candidates(sampler) == IF sampler = "sphere" THEN CubePoints ELSE SquarePoints

InitSampler ==
  /\ initialized = FALSE
  /\ isRunning = FALSE
  /\ settings = [samplesPerFrame |-> DefaultSamplesPerFrame, maxBounces |-> DefaultMaxBounces,
                 width |-> DefaultWidth, height |-> DefaultHeight]
  /\ currentScene = SCENE_DEFAULT
  /\ sceneType = "default"
  /\ animateCamera = TRUE
  /\ cameraAngle = 0
  /\ rt = NewRaytracer(0, 0)
  /\ gpu = NewDevice
  /\ hist = <<>>
  /\ totalRenders = 0
  /\ \E sampler \in {"sphere", "disk"} :
       ray = [pc |-> "loop", sampler |-> sampler, p |-> <<0, 0, 0>>]

\* one pass of `loop { let p = ...; if (dot(p, p) < 1.0) { return p; } }`
\* that returns
SamplerAccept ==
  /\ ray.pc = "loop"
  /\ \E p \in Candidates(ray.sampler) :
       /\ Dot2(p, p) < Fix * Fix
       /\ ray' = [ray EXCEPT !.pc = "returned", !.p = p]
  /\ UNCHANGED hostVars

\* one pass of the loop that rejects its point and starts over
SamplerReject ==
  /\ ray.pc = "loop"
  /\ \E p \in Candidates(ray.sampler) :
       /\ ~(Dot2(p, p) < Fix * Fix)
       /\ ray' = [ray EXCEPT !.p = p]
  /\ UNCHANGED hostVars

NextSampler ==
  \/ SamplerAccept
  \/ SamplerReject

SpecSampler == InitSampler /\ [][NextSampler]_vars

\* an invocation inside a sampler keeps executing it
SpecSamplerFair == InitSampler /\ [][NextSampler]_vars /\ WF_vars(NextSampler)

\* ------------------------------------------- Raytracer: the scene buffers
\* the number of small spheres generateRandomScene places: one per cell of
\* the 22 x 22 grid, except the (at most four) cells within 0.9 of (4, 0)
RandomPlaced == 480..484

\* the scenes loadScene can produce, by their sphere and material counts
BufferScenes ==
  { [type |-> "default", spheres |-> 4, materials |-> 4],
    [type |-> "glass", spheres |-> 5, materials |-> 3] }
  \cup { [type |-> "spheres", spheres |-> n + 4, materials |-> n + 4] : n \in RandomPlaced }

\* buildSphereData / buildMaterialData: the byte length of
\* new Float32Array(count * 8)
byteLength(count) == count * FloatsPerRecord * BytesPerFloat

InitBuffers ==
  /\ initialized = FALSE
  /\ isRunning = FALSE
  /\ settings = [samplesPerFrame |-> DefaultSamplesPerFrame, maxBounces |-> DefaultMaxBounces,
                 width |-> DefaultWidth, height |-> DefaultHeight]
  /\ currentScene = SCENE_DEFAULT
  /\ sceneType = "default"
  /\ animateCamera = TRUE
  /\ cameraAngle = 0
  /\ rt = NewRaytracer(0, 0)
  /\ gpu = NewDevice
  /\ hist = <<>>
  /\ totalRenders = 0
  /\ ray = [pc |-> "constructed",
            scene |-> [type |-> "default", spheres |-> 4, materials |-> 4],
            sphereBuffer |-> [size |-> 0, holds |-> "none"],
            materialBuffer |-> [size |-> 0, holds |-> "none"],
            sphereData |-> 0, materialData |-> 0, numSpheres |-> 0]

\* device.queue.writeBuffer(buffer, 0, data) of `bytes` bytes taken from
\* `scene`: skipped by the host when the data is empty, rejected by the
\* device's validation when the data is longer than the buffer
writeBuffer(buffer, scene, bytes) ==
  IF bytes > 0 /\ bytes <= buffer.size THEN [buffer EXCEPT !.holds = scene] ELSE buffer

\* the three writes render and updateScene share
WriteScene(scene) ==
  [ray EXCEPT !.sphereData = byteLength(scene.spheres),
              !.materialData = byteLength(scene.materials),
              !.sphereBuffer = writeBuffer(@, scene, byteLength(scene.spheres)),
              !.materialBuffer = writeBuffer(@, scene, byteLength(scene.materials))]

\* Raytracer.initialize -> createBuffers(scene)
BuffersCreate ==
  /\ ray.pc = "constructed"
  /\ ray' = [ray EXCEPT
               !.pc = "initialized",
               !.sphereData = byteLength(ray.scene.spheres),
               !.materialData = byteLength(ray.scene.materials),
               !.sphereBuffer = [size |-> Max(byteLength(ray.scene.spheres), MinBufferSize),
                                 holds |-> ray.scene],
               !.materialBuffer = [size |-> Max(byteLength(ray.scene.materials), MinBufferSize),
                                   holds |-> ray.scene]]
  /\ UNCHANGED hostVars

\* loadScene(type): the scene is replaced, and handed to updateScene when
\* the raytracer exists
BuffersLoadScene ==
  /\ \E scene \in BufferScenes :
       /\ scene.type # ray.scene.type
       /\ ray' = IF ray.pc = "initialized"
                 THEN [WriteScene(scene) EXCEPT !.scene = scene]
                 ELSE [ray EXCEPT !.scene = scene]
  /\ UNCHANGED hostVars

\* Raytracer.render(scene, settings): the uniforms and the scene are written
BuffersRender ==
  /\ ray.pc = "initialized"
  /\ ray' = [WriteScene(ray.scene) EXCEPT !.numSpheres = ray.scene.spheres]
  /\ UNCHANGED hostVars

NextBuffers ==
  \/ BuffersCreate
  \/ BuffersLoadScene
  \/ BuffersRender

SpecBuffers == InitBuffers /\ [][NextBuffers]_vars

\* ------------------------------- buildSphereData / buildMaterialData layout
\* the 32 bits of the float32 a Float32Array element holds after the
\* assignment of the integer n (0 <= n < 2^24): sign 0, biased exponent,
\* 23 mantissa bits
Float32Bits(n) ==
  IF n = 0 THEN 0
  ELSE LET e == BitLen(n) - 1
       IN (ExponentBias + e) * (2 ^ MantissaBits) + (n - 2 ^ e) * (2 ^ (MantissaBits - e))

MaterialTypes == {0, 1, 2}

InitLayout ==
  /\ initialized = FALSE
  /\ isRunning = FALSE
  /\ settings = [samplesPerFrame |-> DefaultSamplesPerFrame, maxBounces |-> DefaultMaxBounces,
                 width |-> DefaultWidth, height |-> DefaultHeight]
  /\ currentScene = SCENE_DEFAULT
  /\ sceneType = "default"
  /\ animateCamera = TRUE
  /\ cameraAngle = 0
  /\ rt = NewRaytracer(0, 0)
  /\ gpu = NewDevice
  /\ hist = <<>>
  /\ totalRenders = 0
  /\ \E materialIndex \in 0..MaxMaterialIndex, type \in MaterialTypes :
       ray = [pc |-> "scene",
              sphere |-> [materialIndex |-> materialIndex],
              material |-> [type |-> type],
              sphereBuffer |-> [materialIndex |-> 0],
              materialBuffer |-> [materialType |-> 0],
              kernel |-> [materialIndex |-> 0, materialType |-> 0]]

\* `data[o++] = s.materialIndex` and `data[o++] = m.type` into a
\* Float32Array, then queue.writeBuffer of its bytes
SerializeScene ==
  /\ ray.pc = "scene"
  /\ ray' = [ray EXCEPT !.pc = "written",
                        !.sphereBuffer.materialIndex = Float32Bits(ray.sphere.materialIndex),
                        !.materialBuffer.materialType = Float32Bits(ray.material.type)]
  /\ UNCHANGED hostVars

\* the kernel reads `spheres[i].materialIndex` and
\* `materials[j].materialType`, both declared u32, from the same bytes
KernelReadsRecords ==
  /\ ray.pc = "written"
  /\ ray' = [ray EXCEPT !.pc = "read",
                        !.kernel = [materialIndex |-> ray.sphereBuffer.materialIndex,
                                    materialType |-> ray.materialBuffer.materialType]]
  /\ UNCHANGED hostVars

NextLayout ==
  \/ SerializeScene
  \/ KernelReadsRecords

SpecLayout == InitLayout /\ [][NextLayout]_vars

\* ----------------------------------------------------- Engine: render loop
\* an initialized Engine: its flag, the requestAnimationFrame callbacks
\* waiting for the next frame, the number of animation frames so far, and
\* (ghost) the calls of renderer.render() the last frame made
InitEngine ==
  /\ initialized = FALSE
  /\ isRunning = FALSE
  /\ settings = [samplesPerFrame |-> DefaultSamplesPerFrame, maxBounces |-> DefaultMaxBounces,
                 width |-> DefaultWidth, height |-> DefaultHeight]
  /\ currentScene = SCENE_DEFAULT
  /\ sceneType = "default"
  /\ animateCamera = TRUE
  /\ cameraAngle = 0
  /\ rt = NewRaytracer(0, 0)
  /\ gpu = NewDevice
  /\ hist = <<>>
  /\ totalRenders = 0
  /\ ray = [pc |-> "engine", isRunning |-> FALSE, pending |-> 0, frames |-> 0,
            rendersInFrame |-> 0]

\* Engine.render, called n times in a row: each call returns at once when
\* the engine is stopped, else renders and requests one more callback
EngineRender(e, n) ==
  IF e.isRunning THEN [e EXCEPT !.pending = @ + n] ELSE e

\* Engine.start(): isRunning = true; this.render()
EngineStart ==
  /\ ray.pc = "engine"
  /\ ray.pending < MaxChains
  /\ ray' = EngineRender([ray EXCEPT !.isRunning = TRUE], 1)
  /\ UNCHANGED hostVars

\* Engine.stop(): isRunning = false
EngineStop ==
  /\ ray.pc = "engine"
  /\ ray' = [ray EXCEPT !.isRunning = FALSE]
  /\ UNCHANGED hostVars

\* the browser runs the callbacks requested for this animation frame
AnimationFrame ==
  /\ ray.pc = "engine"
  /\ ray.pending > 0
  /\ ray.frames < MaxFrames
  /\ ray' = EngineRender([ray EXCEPT !.pending = 0, !.frames = @ + 1,
                                     !.rendersInFrame = IF ray.isRunning THEN ray.pending ELSE 0],
                         ray.pending)
  /\ UNCHANGED hostVars

NextEngine ==
  \/ EngineStart
  \/ EngineStop
  \/ AnimationFrame

SpecEngine == InitEngine /\ [][NextEngine]_vars

\* -------------------------------------- Raytracer: calls in any order
\* render(scene, settings) with its first statement: the throw of
\* 'Pipeline not initialized' leaves the raytracer and the device alone
renderCallUnchecked(s, scene, st, n) == render(s, scene, st, n)

renderCall(s, scene, st, n) ==
  IF ~s.rt.computePipeline \/ s.rt.bindGroup = NullBindGroup
  THEN s
  ELSE render(s, scene, st, n)

\* resize on a raytracer without pipeline: createBindGroup throws after the
\* textures were created, and resetAccumulation is not reached
resizeUninitialized(s, w, h) ==
  LET s1 == [s EXCEPT !.rt.width = w, !.rt.height = h]
      s2 == [s1 EXCEPT !.gpu = DestroyTexture(DestroyTexture(@, s1.rt.outputTexture),
                                              s1.rt.accumulationTexture)]
      s3 == createTextures(s2)
  IN [s3 EXCEPT !.gpu = Release(@)]

\* new Raytracer(device, context, format, width, height)
InitRaytracer ==
  /\ initialized = FALSE
  /\ isRunning = FALSE
  /\ settings = [samplesPerFrame |-> DefaultSamplesPerFrame, maxBounces |-> DefaultMaxBounces,
                 width |-> DefaultWidth, height |-> DefaultHeight]
  /\ currentScene = SCENE_DEFAULT
  /\ sceneType = "default"
  /\ animateCamera = TRUE
  /\ cameraAngle = 0
  /\ rt = NewRaytracer(DefaultWidth, DefaultHeight)
  /\ gpu = NewDevice
  /\ hist = <<>>
  /\ totalRenders = 0
  /\ ray = [pc |-> "raytracer", calls |-> 0, thrown |-> "none"]

\* the outcome of a call: the state it leaves and the error it threw
Returns(s2, error) ==
  /\ rt' = Renumber(s2).rt
  /\ gpu' = Renumber(s2).gpu
  /\ ray' = [ray EXCEPT !.calls = @ + 1, !.thrown = error]
  /\ UNCHANGED <<initialized, isRunning, appVars, hist>>

RtInitialize ==
  /\ ~rt.computePipeline
  /\ Returns(initialize(S, currentScene), "none")
  /\ UNCHANGED totalRenders

RtRender ==
  /\ ray.calls < MaxCalls
  /\ Len(gpu.queue) < MaxQueue
  /\ \E spf \in SpfChoices :
       LET st == [settings EXCEPT !.samplesPerFrame = spf]
           s2 == renderCall(S, currentScene, st, totalRenders + 1)
       IN IF s2 = S
          THEN Returns(S, "Pipeline not initialized") /\ UNCHANGED totalRenders
          ELSE Returns(s2, "none") /\ totalRenders' = totalRenders + 1

RtResetAccumulation ==
  /\ ray.calls < MaxCalls
  /\ Returns(resetAccumulation(S),
             IF rt.computePipeline THEN "none" ELSE "Resources not initialized")
  /\ UNCHANGED totalRenders

RtResize ==
  /\ ray.calls < MaxCalls
  /\ \E w \in 1..MaxRectWidth, h \in 1..MaxRectHeight :
       IF rt.computePipeline
       THEN Returns(resize(S, w, h), "none")
       ELSE Returns(resizeUninitialized(S, w, h), "Resources not initialized")
  /\ UNCHANGED totalRenders

\* updateScene on a raytracer without buffers fails in its first writeBuffer
RtUpdateScene ==
  /\ ray.calls < MaxCalls
  /\ IF rt.computePipeline
     THEN Returns(updateScene(S, currentScene), "none")
     ELSE Returns(S, "TypeError")
  /\ UNCHANGED totalRenders

NextRaytracer ==
  \/ RtInitialize
  \/ RtRender
  \/ RtResetAccumulation
  \/ RtResize
  \/ RtUpdateScene
  \/ GpuStep

SpecRaytracer == InitRaytracer /\ [][NextRaytracer]_vars

\* ------------------------------------------------------------ properties
Last(q) == q[Len(q)]

RECURSIVE SumSpf(_)
SumSpf(h) == IF h = <<>> THEN 0 ELSE SumSpf(SubSeq(h, 1, Len(h) - 1)) + Last(h).samplesPerFrame

RECURSIVE SumColors(_)
SumColors(q) == IF q = <<>> THEN Black ELSE VAdd(SumColors(SubSeq(q, 1, Len(q) - 1)), Last(q).color)

\* the textures the next dispatch would use
BoundAccumulation == gpu.textures[rt.bindGroup.accumulation]
BoundOutput == gpu.textures[rt.bindGroup.output]

\* every accumulation texture the device still holds
AccumulationTextures ==
  {id \in DOMAIN gpu.textures : gpu.textures[id].format = "rgba32float"}

\* submitted dispatches that will still write to accumulation texture id
Pending(id) == {i \in 1..Len(gpu.queue) : gpu.queue[i].bindGroup.accumulation = id}

\* the pixels of the image as the settings describe it
ImagePixels == Pixels(settings.width, settings.height)

\* C1: in every accumulation cell that holds samples, the divisor the kernel
\* used for the average (uniforms.sampleCount + 1) equals the number of
\* samples added to the cell since the reset.
C1_DivisorIsSampleCount ==
  \A id \in AccumulationTextures :
    \A p \in DOMAIN gpu.textures[id].texels :
      LET cell == gpu.textures[id].texels[p]
      IN cell.samples # <<>> => cell.divisor = Len(cell.samples)

\* C2: every render call adds exactly one sample to the cell of every pixel
\* of the image, whatever samplesPerFrame is: each cell of the bound
\* accumulation texture holds the sum of as many samples as render calls
\* were made since the reset, less the dispatches still queued.
C2_OneSamplePerRender ==
  initialized =>
    \A p \in ImagePixels :
      /\ p \in DOMAIN BoundAccumulation.texels
      /\ LET cell == BoundAccumulation.texels[p]
         IN /\ Len(cell.samples) + Cardinality(Pending(rt.bindGroup.accumulation)) = Len(hist)
            /\ cell.rgb = SumColors(cell.samples)

C2_Witness ==
  /\ initialized
  /\ settings.width = 2
  /\ Len(hist) = 2
  /\ hist[1].samplesPerFrame = 2
  /\ gpu.queue = <<>>
  /\ \A p \in ImagePixels : Len(BoundAccumulation.texels[p].samples) = 2

\* C3: the host counters after the render calls since the last reset:
\* frameIndex is their number, sampleCount the sum of their samplesPerFrame
\* values, and each call returned the sum up to and including it.
C3_HostCounters ==
  /\ rt.frameIndex = Len(hist)
  /\ rt.sampleCount = SumSpf(hist)
  /\ \A i \in 1..Len(hist) : hist[i].returned = SumSpf(SubSeq(hist, 1, i))

C3_Witness ==
  /\ Len(hist) = 2
  /\ hist[1].samplesPerFrame = 2
  /\ hist[2].samplesPerFrame = 1
  /\ hist[2].returned = 3

\* C4: after a reset the counters are zero and the bound accumulation
\* texture is all zero; the first sample of every cell was taken with
\* frameIndex = 0 and sampleCount = 0 on a cell reading (0,0,0); and every
\* sample in the bound accumulation texture stems from a render call made
\* since the reset.
C4_ResetClears ==
  initialized =>
    /\ hist = <<>> =>
         /\ rt.frameIndex = 0
         /\ rt.sampleCount = 0
         /\ \A p \in DOMAIN BoundAccumulation.texels : BoundAccumulation.texels[p] = ZeroTexel
    /\ \A p \in DOMAIN BoundAccumulation.texels :
         LET cell == BoundAccumulation.texels[p]
         IN /\ cell.samples # <<>> =>
                 /\ cell.samples[1].frameIndex = 0
                 /\ cell.samples[1].sampleCount = 0
                 /\ cell.samples[1].prev = Black
            /\ \A i \in 1..Len(cell.samples) :
                 \E j \in 1..Len(hist) : hist[j].render = cell.samples[i].render

\* a render and its dispatch, then a reset, then a render whose dispatch ran
C4_Witness ==
  /\ initialized
  /\ totalRenders = 2
  /\ Len(hist) = 1
  /\ gpu.queue = <<>>
  /\ \A p \in ImagePixels : Len(BoundAccumulation.texels[p].samples) = 1

\* C5: a reset made after a render call, on an idle device (no dispatch
\* queued), leaves every pixel of the output texture black.
C5_BlackAfterReset ==
  [][(initialized /\ gpu.queue = <<>> /\ hist # <<>> /\ hist' = <<>>) =>
       \A p \in DOMAIN BoundOutput'.texels : BoundOutput'.texels[p] = Black]_vars

C7_OneCameraPerCell ==
  \A id \in AccumulationTextures :
    \A p \in DOMAIN gpu.textures[id].texels :
      LET q == gpu.textures[id].texels[p].samples
      IN \A i, j \in 1..Len(q) : q[i].camera.camera = q[j].camera.camera /\ q[i].scene = q[j].scene

\* C8: the samples of the bound accumulation texture, and the dispatches
\* queued for it, were all traced with the current settings.maxBounces, and
\* a change of maxBounces on an initialized raytracer leaves frameIndex and
\* sampleCount 0 and the bound accumulation texture all zero.
C8_SameBounces ==
  initialized =>
    /\ \A p \in DOMAIN BoundAccumulation.texels :
         LET q == BoundAccumulation.texels[p].samples
         IN \A i \in 1..Len(q) : q[i].maxBounces = settings.maxBounces
    /\ \A i \in Pending(rt.bindGroup.accumulation) :
         gpu.queue[i].uniforms.maxBounces = settings.maxBounces

C8_BouncesClear ==
  [][(initialized /\ settings'.maxBounces # settings.maxBounces) =>
       /\ rt'.frameIndex = 0
       /\ rt'.sampleCount = 0
       /\ \A p \in DOMAIN BoundAccumulation'.texels : BoundAccumulation'.texels[p] = ZeroTexel]_vars

C8_BouncesChangeClears == []C8_SameBounces /\ C8_BouncesClear

\* the bounce limit was changed after a sample had been accumulated, and a
\* sample was accumulated after the change
C8_Witness ==
  /\ initialized
  /\ settings.maxBounces # DefaultMaxBounces
  /\ totalRenders = 2
  /\ Len(hist) = 1
  /\ gpu.queue = <<>>
  /\ \A p \in ImagePixels :
       /\ Len(BoundAccumulation.texels[p].samples) = 1
       /\ BoundAccumulation.texels[p].samples[1].maxBounces = settings.maxBounces

\* C9: the bind group names the raytracer's current textures, both alive
\* and of the raytracer's (and the settings') dimensions; every sample in
\* the bound accumulation texture was taken on this pixel grid; and a
\* change of dimensions leaves both counters 0 and both textures all zero.
C9_TexturesMatch ==
  initialized =>
    /\ rt.bindGroup = [output |-> rt.outputTexture, accumulation |-> rt.accumulationTexture]
    /\ rt.outputTexture \notin gpu.destroyed
    /\ rt.accumulationTexture \notin gpu.destroyed
    /\ BoundAccumulation.format = "rgba32float"
    /\ BoundOutput.format = "rgba8unorm"
    /\ DOMAIN BoundAccumulation.texels = Pixels(rt.width, rt.height)
    /\ DOMAIN BoundOutput.texels = Pixels(rt.width, rt.height)
    /\ \A p \in DOMAIN BoundAccumulation.texels :
         LET q == BoundAccumulation.texels[p].samples
         IN \A i \in 1..Len(q) :
              q[i].camera.width = rt.width /\ q[i].camera.height = rt.height

C9_ResizeClears ==
  [][(initialized /\ (rt'.width # rt.width \/ rt'.height # rt.height)) =>
       /\ rt'.frameIndex = 0
       /\ rt'.sampleCount = 0
       /\ \A p \in DOMAIN BoundAccumulation'.texels : BoundAccumulation'.texels[p] = ZeroTexel
       /\ \A p \in DOMAIN BoundOutput'.texels : BoundOutput'.texels[p] = Black]_vars

C9_ResizeReallocates == []C9_TexturesMatch /\ C9_ResizeClears

\* a resize to other dimensions after a frame was rendered: the camera
\* buffer still holds the aspect ratio of the old size
C9_Witness ==
  /\ initialized
  /\ totalRenders > 0
  /\ hist = <<>>
  /\ gpu.cameraBuffer.width # rt.width
  /\ DOMAIN BoundOutput.texels = Pixels(rt.width, rt.height)

\* the ray misses every sphere: hitSphere finds no root in [tMin, tMax]
MissesEverySphere ==
  \A k \in 1..Len(ray.spheres) :
    hitSphere(ray.spheres[k], ray.rayOrigin, ray.rayDir, TMin, TMax) = NoHit

\* C10 as stated: for a ray that misses every sphere rayColor returns
\* skyColor(dir), for every bounce budget.
C10_MissIsSky ==
  (ray.pc = "done" /\ MissesEverySphere) => ray.result = skyColor(ray.rayDir)

\* C10 amended: for a ray that misses every sphere and a bounce budget of at
\* least 1, rayColor returns skyColor(dir).
C10_MissIsSkyWithBudget ==
  (ray.pc = "done" /\ MissesEverySphere /\ ray.depth >= 1) =>
    ray.result = skyColor(ray.rayDir)

\* a ray past the spheres of a populated scene, with budget, has returned
C10_Witness ==
  /\ ray.pc = "done"
  /\ ray.spheres # <<>>
  /\ MissesEverySphere
  /\ ray.depth >= 1
  /\ ray.result # <<0, 0, 0>>

\* rayColor ran out of budget: it returned with i = depth (the returns
\* inside the loop happen with i < depth)
RanOutOfBudget == ray.pc = "done" /\ ray.i = ray.depth

C11_AtMostDepthIterations == ray.i <= ray.depth

C11_ExhaustedIsBlack == RanOutOfBudget => ray.result = <<0, 0, 0>>

\* C11: rayColor never starts more than depth iterations, it returns, and
\* when the loop ran out of budget it returned black.
C11_TerminatesWithinBudget ==
  /\ []C11_AtMostDepthIterations
  /\ []C11_ExhaustedIsBlack
  /\ <>(ray.pc = "done")

\* a path that bounced MaxDepth times through a populated scene and ran out
C11_Witness ==
  /\ RanOutOfBudget
  /\ ray.depth = MaxDepth
  /\ ray.spheres # <<>>
  /\ ray.currentOrigin # ray.rayOrigin

\* the root hitSphere reports for sphere k of the call on the whole range
CallRoot(k) == hitSphere(ray.spheres[k], ray.rayOrigin, ray.rayDir, ray.tMin, ray.tMax)
CallHits == {k \in 1..Len(ray.spheres) : CallRoot(k) # NoHit}

\* C12: closestHit returns the smallest of the spheres' valid roots with the
\* material of a sphere that has it, and a miss when no sphere has one.
C12_NearestHit ==
  ray.pc = "returned" =>
    IF CallHits = {}
    THEN ray.rec.t < 0
    ELSE /\ \A k \in CallHits : ray.rec.t <= CallRoot(k)
         /\ \E k \in CallHits : /\ ray.rec.t = CallRoot(k)
                                /\ ray.rec.materialIndex = ray.spheres[k].materialIndex

\* the nearest sphere is not the last one hit in list order
C12_Witness ==
  /\ ray.pc = "returned"
  /\ Cardinality(CallHits) >= 2
  /\ \E k \in CallHits : k < Len(ray.spheres) /\ CallRoot(k) = ray.rec.t
                         /\ CallRoot(Len(ray.spheres)) > ray.rec.t

\* the loop body is at a hit of a Metal material with fuzz = 0
AtMirrorHit ==
  /\ InBody
  /\ ~(RayRec.t < 0)
  /\ RayMaterial.materialType = 1
  /\ RayMaterial.fuzz = 0

\* C13: at a hit of a Metal material with fuzz = 0 every draw of the random
\* point leads to the same outcome: the path continues in the direction
\* reflect(currentDir, normal), or (if that points into the surface) it is
\* absorbed for every draw.
C13_MirrorIsDeterministic ==
  [][AtMirrorHit =>
       LET reflected == reflect(ray.currentDir, RayRec.normal)
       IN IF Dot2(reflected, RayRec.normal) <= 0
          THEN ray'.pc = "done" /\ ray'.result = <<0, 0, 0>>
          ELSE ray'.pc = "loop" /\ ray'.currentDir = reflected]_vars

\* the ray sent straight up has come back from the mirror sphere
C13_Witness ==
  /\ ray.pc = "loop"
  /\ ray.spheres # <<>>
  /\ ray.rayOrigin = <<0, 0, 0>>
  /\ ray.rayDir = <<0, F(1), 0>>
  /\ ray.i = 1
  /\ ray.currentOrigin = <<0, F(2), 0>>
  /\ ray.currentDir = <<0, F(-1), 0>>

\* the loop body is at a Dielectric hit with refractionRatio * sinTheta > 1
AtTotalInternalReflection ==
  /\ InBody
  /\ ~(RayRec.t < 0)
  /\ RayMaterial.materialType = 2
  /\ LET refractionRatio == IF RayRec.frontFace
                            THEN (Fix * Fix) \div RayMaterial.refractionIndex
                            ELSE RayMaterial.refractionIndex
         cosTheta == Min(dot(VNeg(normalize(ray.currentDir)), RayRec.normal), Fix)
         sinTheta == sqrt(Fix - (cosTheta * cosTheta) \div Fix)
     IN (refractionRatio * sinTheta) \div Fix > Fix

\* C14: at a Dielectric hit with refractionRatio * sinTheta > 1 the path
\* continues in the direction reflect(unitDir, normal) for every value of
\* the random draw.
C14_TotalInternalReflection ==
  [][AtTotalInternalReflection =>
       /\ ray'.pc = "loop"
       /\ ray'.currentDir = reflect(normalize(ray.currentDir), RayRec.normal)]_vars

\* the ray cast from inside the glass sphere was reflected back into it:
\* it left the first hit in a direction other than the refracted one
C14_Witness ==
  /\ ray.pc = "loop"
  /\ ray.rayOrigin = <<F(-3) - 3, 2, 0>>
  /\ ray.rayDir = <<0, 0, F(-1)>>
  /\ ray.i = 1
  /\ ray.rec.frontFace = FALSE
  /\ ray.currentDir = reflect(normalize(ray.rayDir), ray.rec.normal)
  /\ ray.currentDir # refract(normalize(ray.rayDir), ray.rec.normal,
                              ray.materials[ray.rec.materialIndex + 1].refractionIndex)

\* C15: every value rand() returns is below 1.0 (it is never negative: the
\* numerator is the conversion of an unsigned number).
C15_RandBelowOne ==
  (ray.pc = "rng" /\ ray.calls > 0) => U32Less(ray.num, ray.den)

\* C16: a step that is not a reset (the render calls since the last reset
\* are not forgotten) decreases neither frameIndex nor sampleCount; a render
\* call increases frameIndex by one and sampleCount by at least one; and a
\* step that decreases a counter is a reset and leaves both at 0.
C16_MonotoneCounters ==
  [][/\ hist' # <<>> =>
          /\ rt'.frameIndex >= rt.frameIndex
          /\ rt'.sampleCount >= rt.sampleCount
     /\ Len(hist') > Len(hist) =>
          /\ rt'.frameIndex = rt.frameIndex + 1
          /\ rt'.sampleCount > rt.sampleCount
     /\ (rt'.frameIndex < rt.frameIndex \/ rt'.sampleCount < rt.sampleCount) =>
          /\ hist' = <<>>
          /\ rt'.frameIndex = 0
          /\ rt'.sampleCount = 0]_vars

\* the counters counted, were reset, and counted again
C16_Witness ==
  /\ initialized
  /\ totalRenders = 2
  /\ Len(hist) = 1
  /\ rt.frameIndex = 1
  /\ rt.sampleCount = 2

\* C17: two different pixels of one frame, and one pixel in two different
\* frames, start from different RNG states.
C17_DistinctSeeds ==
  (/\ ray.pc = "seeded"
   /\ \/ /\ ray.worker1.frameIndex = ray.worker2.frameIndex
         /\ ray.worker1.pixel # ray.worker2.pixel
      \/ /\ ray.worker1.pixel = ray.worker2.pixel
         /\ ray.worker1.frameIndex # ray.worker2.frameIndex)
  => ray.worker1.rngState # ray.worker2.rngState

\* the textures one whole dispatch leaves behind, computed in one piece
DispatchResult ==
  RunDispatch([textures |-> <<ray.acc0, ray.out0>>], ray.d, ray.colors).textures
AllWorkersDone == \A p \in DOMAIN ray.workers : ray.workers[p].pc = "done"
Moved(p) == ray'.workers[p] # ray.workers[p]

\* C18: a step of worker (x, y) leaves every accumulation cell and every
\* output cell other than (x, y) as it was, a worker outside the image
\* changes no cell at all, and once all workers are done the two textures
\* are the same whatever the order of the steps was.
C18_WorkersAreIndependent ==
  /\ [](ray.pc = "dispatch" /\ AllWorkersDone => <<ray.acc, ray.out>> = DispatchResult)
  /\ [][ray.pc = "dispatch" =>
          \A p \in DOMAIN ray.workers :
            Moved(p) =>
              /\ \A q \in DOMAIN ray.acc.texels :
                   q # p => /\ ray'.acc.texels[q] = ray.acc.texels[q]
                            /\ ray'.out.texels[q] = ray.out.texels[q]
              /\ (p[1] >= ray.d.uniforms.width \/ p[2] >= ray.d.uniforms.height)
                   => ray'.acc = ray.acc /\ ray'.out = ray.out]_vars
\* two workers of one image have both finished, in a dispatch that added to
\* an earlier sample
C18_Witness ==
  /\ ray.pc = "dispatch"
  /\ AllWorkersDone
  /\ ray.d.uniforms.width = 2
  /\ ray.d.uniforms.sampleCount = 1
  /\ ray.colors[<<0, 0>>] # ray.colors[<<1, 0>>]
  /\ ray.acc.texels[<<0, 0>>] # ray.acc.texels[<<1, 0>>]
  /\ ray.out # ray.out0

\* C19: once a worker of the image is done, its output cell is the
\* gamma-corrected, clamped average of its accumulation cell over the
\* current sample count, every channel lies in [0, 1], and what the output
\* cell held before plays no part.
C19_OutputIsDerived ==
  ray.pc = "dispatch" =>
    \A p \in DOMAIN ray.out.texels :
      ray.workers[p].pc = "done" =>
        LET sampleCount == ray.d.uniforms.sampleCount + 1
            avgColor == VDivScalar(ray.acc.texels[p].rgb, sampleCount)
            new == ray.out.texels[p]
        IN /\ \A c \in 1..3 :
                /\ new[c] \in 0..ColorScale
                /\ new[c] = GammaChannel(Clamp01(avgColor[c]))
           /\ ray.acc.texels[p].rgb = VAdd(ray.acc0.texels[p].rgb, ray.colors[p])
\* a worker has replaced a white output cell by the average of a black and a
\* white sample
C19_Witness ==
  /\ ray.pc = "dispatch"
  /\ ray.workers[<<0, 0>>].pc = "done"
  /\ ray.d.uniforms.sampleCount = 1
  /\ ray.out0.texels[<<0, 0>>] = White
  /\ ray.acc.texels[<<0, 0>>].rgb = White
  /\ ray.out.texels[<<0, 0>>] = VDivScalar(White, 2)

\* C20: when several spheres of the list have the returned t as their valid
\* root, the record returned is that of the first of them in list order.
C20_FirstOfEqualWins ==
  (ray.pc = "returned" /\ ray.rec.t > 0) =>
    LET ties == {k \in CallHits : CallRoot(k) = ray.rec.t}
        first == CHOOSE k \in ties : \A j \in ties : k <= j
    IN ties # {} => ray.rec.materialIndex = ray.spheres[first].materialIndex

\* the quadratic of the call: its discriminant, its two roots, and whether
\* the ray starts outside the sphere
SphereOc == VSub(ray.rayOrigin, ray.sphere.center)
SphereA == Dot2(ray.rayDir, ray.rayDir)
SphereHalfB == Dot2(SphereOc, ray.rayDir)
SphereC == Dot2(SphereOc, SphereOc) - ray.sphere.radius * ray.sphere.radius
SphereDiscriminant == SphereHalfB * SphereHalfB - SphereA * SphereC
SmallerRoot == ((-SphereHalfB - ISqrt(SphereDiscriminant)) * Fix) \div SphereA
LargerRoot == ((-SphereHalfB + ISqrt(SphereDiscriminant)) * Fix) \div SphereA
InRange(t) == ray.tMin <= t /\ t <= ray.tMax

\* C21: hitSphere returns none on a negative discriminant, else the smaller
\* root if it lies in [tMin, tMax], else the larger root if that does, else
\* none; from outside the sphere with both roots in range it returns the
\* smaller root, which is positive.
C21_FirstValidRoot ==
  ray.pc = "returned" =>
    /\ SphereDiscriminant < 0 => ray.root = NoHit
    /\ SphereDiscriminant >= 0 =>
         /\ InRange(SmallerRoot) => ray.root = SmallerRoot
         /\ (~InRange(SmallerRoot) /\ InRange(LargerRoot)) => ray.root = LargerRoot
         /\ (~InRange(SmallerRoot) /\ ~InRange(LargerRoot)) => ray.root = NoHit
         /\ (SphereC > 0 /\ InRange(SmallerRoot) /\ InRange(LargerRoot)) =>
              /\ ray.root > 0
              /\ ray.root <= LargerRoot
\* a ray from outside crosses a sphere at two different roots in range
C21_Witness ==
  /\ ray.pc = "returned"
  /\ SphereDiscriminant > 0
  /\ SphereC > 0
  /\ InRange(SmallerRoot)
  /\ InRange(LargerRoot)
  /\ SmallerRoot < LargerRoot
  /\ ray.root = SmallerRoot

\* the sphere of the list whose record was returned, and its unflipped
\* outward normal (point - center) / radius at the returned point
HitSphereOfRec ==
  CHOOSE k \in 1..Len(ray.spheres) : ray.spheres[k].materialIndex = ray.rec.materialIndex
OutwardOfRec ==
  VDiv(VSub(ray.rec.p, ray.spheres[HitSphereOfRec].center), ray.spheres[HitSphereOfRec].radius)

\* C22: for every hit closestHit returns, also on a sphere of negative
\* radius, the stored normal opposes the ray, and frontFace is true exactly
\* when the unflipped outward normal already did.
C22_NormalOpposesRay ==
  (ray.pc = "returned" /\ ray.rec.t > 0) =>
    /\ Dot2(ray.rayDir, ray.rec.normal) <= 0
    /\ ray.rec.frontFace <=> (Dot2(ray.rayDir, OutwardOfRec) < 0)
    /\ ray.rec.normal = IF ray.rec.frontFace THEN OutwardOfRec ELSE VNeg(OutwardOfRec)
\* a hit from outside on the sphere of negative radius: the outward normal
\* points along the ray and is flipped
C22_Witness ==
  /\ ray.pc = "returned"
  /\ ray.rec.t > 0
  /\ ray.spheres[HitSphereOfRec].radius < 0
  /\ ~ray.rec.frontFace
  /\ Dot2(ray.rayDir, OutwardOfRec) > 0
  /\ Dot2(ray.rayDir, ray.rec.normal) < 0

\* the loop body is at a hit of a Metal material
AtMetalHit ==
  /\ InBody
  /\ ~(RayRec.t < 0)
  /\ RayMaterial.materialType = 1

\* C23: at a Metal hit, a scattered direction with dot(scattered, normal) <= 0
\* makes rayColor return black at once, whatever the throughput and the
\* budget left; any other scattered direction multiplies the throughput by
\* the albedo and continues the path from the hit point.
C23_MetalAbsorption ==
  [][AtMetalHit =>
       \E p \in UnitSpherePoints :
         LET scattered == VAdd(reflect(ray.currentDir, RayRec.normal),
                               VScale(p, RayMaterial.fuzz))
         IN IF Dot2(scattered, RayRec.normal) <= 0
            THEN /\ ray'.pc = "done"
                 /\ ray'.result = <<0, 0, 0>>
            ELSE /\ ray'.pc = "loop"
                 /\ ray'.i = ray.i + 1
                 /\ ray'.throughput = VMul(ray.throughput, RayMaterial.albedo)
                 /\ ray'.currentOrigin = RayRec.p
                 /\ ray'.currentDir = scattered]_vars
\* a path that has lost half of its throughput at a diffuse sphere is
\* absorbed by the metal sphere
C23_Witness ==
  /\ ray.pc = "done"
  /\ ray.i < ray.depth
  /\ ray.rec.t > 0
  /\ ray.materials # <<>>
  /\ RayMaterial.materialType = 1
  /\ RayMaterial.fuzz > 0
  /\ ray.throughput = <<Fix \div 2, Fix \div 2, Fix \div 2>>
  /\ ray.result = <<0, 0, 0>>

\* C24: every call of a rejection sampler returns, whatever points the
\* generator produces.
C24_SamplerReturns == <>(ray.pc = "returned")

\* C25: the sphere data and the material data of every scene written after
\* initialize fit the buffers createBuffers allocated.
C25_DataFitsBuffers ==
  ray.pc = "initialized" =>
    /\ ray.sphereData <= ray.sphereBuffer.size
    /\ ray.materialData <= ray.materialBuffer.size

\* C26: the materialIndex and the materialType the kernel reads are the
\* materialIndex of the scene's sphere and the type of the scene's material.
C26_KernelReadsWhatSceneHolds ==
  ray.pc = "read" =>
    /\ ray.kernel.materialIndex = ray.sphere.materialIndex
    /\ ray.kernel.materialType = ray.material.type

\* the hit of the current iteration has a material of no known type
UntypedHit ==
  /\ ray.materials # <<>>
  /\ ~(RayRec.t < 0)
  /\ RayMaterial.materialType \notin {0, 1, 2}

C28_SettingsMatchTextures ==
  /\ [](initialized =>
          /\ settings.width = rt.width
          /\ settings.height = rt.height
          /\ DOMAIN BoundOutput.texels = Pixels(settings.width, settings.height)
          /\ DOMAIN BoundAccumulation.texels = Pixels(settings.width, settings.height))
  /\ [][totalRenders' = totalRenders + 1 =>
          /\ gpu'.queue # <<>>
          /\ LET d == gpu'.queue[Len(gpu'.queue)]
             IN /\ d.render = totalRenders'
                /\ d.uniforms.width = settings.width
                /\ d.uniforms.height = settings.height
                /\ d.groupsX * WorkgroupSize >= settings.width
                /\ d.groupsY * WorkgroupSize >= settings.height
                /\ d.camera.width = settings.width
                /\ d.camera.height = settings.height
                /\ DOMAIN gpu'.textures[d.bindGroup.output].texels =
                     Pixels(settings.width, settings.height)
                /\ DOMAIN gpu'.textures[d.bindGroup.accumulation].texels =
                     Pixels(settings.width, settings.height)]_vars
\* a frame is rendered after the window was resized to another width, with
\* the camera data of the new size
C28_Witness ==
  /\ initialized
  /\ settings.width # DefaultWidth
  /\ gpu.queue # <<>>
  /\ gpu.queue[1].uniforms.width = settings.width
  /\ gpu.cameraBuffer.width = settings.width
  /\ DOMAIN BoundOutput.texels = Pixels(settings.width, settings.height)
  /\ totalRenders = 2

\* C29: at most one animation-frame callback chain is live, and no
\* animation frame calls renderer.render() more than once.
C29_OneCallbackChain ==
  ray.pc = "engine" => (ray.pending <= 1 /\ ray.rendersInFrame <= 1)

\* a call of render is being made on a raytracer that was not initialized
RenderBeforeInitialize ==
  /\ ray.pc = "raytracer"
  /\ ~rt.computePipeline
  /\ ray'.calls = ray.calls + 1
  /\ ray'.thrown = "Pipeline not initialized"

\* C30: as long as initialize has not run, the counters stay 0, no work is
\* submitted and no bind group exists; a render call then throws 'Pipeline
\* not initialized' and changes neither the raytracer nor the device.
C30_RenderBeforeInitializeThrows ==
  /\ []((ray.pc = "raytracer" /\ ~rt.computePipeline) =>
          /\ rt.frameIndex = 0
          /\ rt.sampleCount = 0
          /\ rt.bindGroup = NullBindGroup
          /\ gpu.queue = <<>>
          /\ totalRenders = 0)
  /\ [][RenderBeforeInitialize => (rt' = rt /\ gpu' = gpu)]_vars
\* render has thrown on a raytracer that already has textures from a resize
C30_Witness ==
  /\ ray.pc = "raytracer"
  /\ ~rt.computePipeline
  /\ ray.thrown = "Pipeline not initialized"
  /\ rt.outputTexture # 0
  /\ rt.accumulationTexture # 0
  /\ rt.width = MaxRectWidth
  /\ gpu.queue = <<>>

====
